---------------------------- MODULE Spec2Model ----------------------------
(***************************************************************************)
(* A model of the battle decision engine of fgo-sheba: the battle state    *)
(* (game/battle.rs), the enemy prioritizer, skill engine, NP timing engine *)
(* and card selector (ai/*.rs), the chain detection (game/cards.rs) and    *)
(* the orchestrator BattleAI::decide_action (ai/mod.rs).                   *)
(*                                                                         *)
(* Conventions.                                                            *)
(*  - Indices stored in data (servant_idx, position, enemy_idx) are the    *)
(*    0-based values of the Rust code; a Vec v is a sequence and v[i] of   *)
(*    the code is v[i + 1] here.                                           *)
(*  - Option<T> is a sequence of length at most one: None is << >> and     *)
(*    Some(x) is << x >>.                                                  *)
(*  - hp_percent (f32 in 0.0 .. 1.0) is carried in hundredths, so 0.55 is  *)
(*    55 and the 0.3 spread of should_use_aoe is 30.                       *)
(*  - f32 scores are carried as exact integers over a denominator that is  *)
(*    the same for every candidate of one ranking: a factor n/d of the     *)
(*    code multiplies the numerator by n where the code applies it and by  *)
(*    d where it does not.  Comparisons are therefore the comparisons of   *)
(*    the real-valued scores; f32 rounding is not modelled.                *)
(*  - Class-advantage multipliers are carried in halves: 2.0 is 4, 1.5 is  *)
(*    3, 1.0 is 2 and 0.5 is 1.                                            *)
(***************************************************************************)
EXTENDS Integers, Sequences, FiniteSets

VARIABLES
    phase,            \* BattleState.phase
    current_wave,     \* BattleState.current_wave: [enemies, wave_number, total_waves]
    total_waves,      \* BattleState.total_waves
    servants,         \* BattleState.servants (front line)
    available_cards,  \* BattleState.available_cards
    selected_cards,   \* BattleState.selected_cards
    np_available,     \* BattleState.np_available: [bool; 3]
    target_enemy,     \* BattleState.target_enemy: Option<usize>
    master_skills,    \* BattleState.master_skills: [cooldowns, available]
    settings,         \* the Settings value passed to every call
    ret               \* what the last operation returned: [op |-> ..., ...]

vars == << phase, current_wave, total_waves, servants, available_cards,
           selected_cards, np_available, target_enemy, master_skills,
           settings, ret >>

-----------------------------------------------------------------------------
(* Generic helpers *)

None == << >>

Some(x) == << x >>

IsSome(o) == Len(o) = 1

Unwrap(o) == o[1]

Range(s) == { s[i] : i \in 1..Len(s) }

Contains(s, x) == \E i \in 1..Len(s) : s[i] = x

RECURSIVE Pow(_, _)
Pow(b, e) == IF e = 0 THEN 1 ELSE b * Pow(b, e - 1)

\* iter().take(n)
Take(s, n) == SubSeq(s, 1, IF Len(s) < n THEN Len(s) ELSE n)

\* slice::sort_by(|a, b| b.score.partial_cmp(&a.score)): a stable sort,
\* descending by score.  An element is inserted after every element whose
\* score is not smaller than its own, so equal scores keep their order.
RECURSIVE InsertDesc(_, _)
InsertDesc(sorted, x) ==
    IF sorted = << >> THEN << x >>
    ELSE IF Head(sorted).score < x.score THEN << x >> \o sorted
    ELSE << Head(sorted) >> \o InsertDesc(Tail(sorted), x)

RECURSIVE SortDesc(_)
SortDesc(s) ==
    IF s = << >> THEN << >>
    ELSE InsertDesc(SortDesc(SubSeq(s, 1, Len(s) - 1)), s[Len(s)])

-----------------------------------------------------------------------------
(* game/servant.rs, game/enemy.rs: classes, enemies, waves *)

ServantClasses ==
    { "Saber", "Archer", "Lancer", "Rider", "Caster", "Assassin", "Berserker",
      "Ruler", "Avenger", "MoonCancer", "AlterEgo", "Foreigner", "Pretender",
      "Beast", "Shielder", "Unknown" }

EnemyClasses == ServantClasses \cup { "Knight", "Cavalry" }

\* ServantClass::advantage_against, in halves (2.0 -> 4, 1.5 -> 3, 1.0 -> 2, 0.5 -> 1)
advantage_against(class, enemy) ==
    CASE class = "Saber"      /\ enemy = "Lancer"     -> 4
      [] class = "Saber"      /\ enemy = "Archer"     -> 1
      [] class = "Archer"     /\ enemy = "Saber"      -> 4
      [] class = "Archer"     /\ enemy = "Lancer"     -> 1
      [] class = "Lancer"     /\ enemy = "Archer"     -> 4
      [] class = "Lancer"     /\ enemy = "Saber"      -> 1
      [] class = "Rider"      /\ enemy = "Caster"     -> 4
      [] class = "Rider"      /\ enemy = "Assassin"   -> 1
      [] class = "Caster"     /\ enemy = "Assassin"   -> 4
      [] class = "Caster"     /\ enemy = "Rider"      -> 1
      [] class = "Assassin"   /\ enemy = "Rider"      -> 4
      [] class = "Assassin"   /\ enemy = "Caster"     -> 1
      [] class = "Berserker"                          -> 3
      [] class = "Ruler"      /\ enemy = "MoonCancer" -> 4
      [] class = "Ruler"      /\ enemy = "Avenger"    -> 1
      [] class = "Avenger"    /\ enemy = "Ruler"      -> 4
      [] class = "MoonCancer" /\ enemy = "Avenger"    -> 4
      [] class = "MoonCancer" /\ enemy = "Ruler"      -> 1
      [] class = "AlterEgo"   /\ enemy = "Cavalry"    -> 3
      [] class = "AlterEgo"   /\ enemy = "Foreigner"  -> 4
      [] class = "Foreigner"  /\ enemy = "Foreigner"  -> 4
      [] class = "Foreigner"  /\ enemy = "Berserker"  -> 4
      [] class = "Pretender"  /\ enemy = "Knight"     -> 3
      [] OTHER                                        -> 2

\* Servant::damage_multiplier
damage_multiplier(servant, enemy_class) == advantage_against(servant.class, enemy_class)

\* Enemy::threat_level
threat_level(enemy) ==
    IF enemy.is_boss /\ enemy.has_dangerous_np THEN "Critical"
    ELSE IF enemy.is_boss \/ enemy.has_dangerous_np THEN "High"
    ELSE IF enemy.break_bars > 0 THEN "Medium"
    ELSE "Low"

\* Enemy::has_break_bars
has_break_bars(enemy) == enemy.break_bars > 0

\* Enemy::default() with the given class, HP and position
EnemyDefault ==
    [ class |-> "Unknown", hp_percent |-> 100, break_bars |-> 0, position |-> 0,
      is_alive |-> TRUE, is_boss |-> FALSE, has_dangerous_np |-> FALSE ]

\* EnemyWave::new
EnemyWaveNew(wave_number, total) ==
    [ enemies |-> << >>, wave_number |-> wave_number, total_waves |-> total ]

\* EnemyWave::alive_enemies
alive_enemies(wave) == SelectSeq(wave.enemies, LAMBDA e : e.is_alive)

\* EnemyWave::alive_count
alive_count(wave) == Len(alive_enemies(wave))

\* EnemyWave::is_final_wave
wave_is_final(wave) == wave.wave_number = wave.total_waves

-----------------------------------------------------------------------------
(* game/servant.rs, game/cards.rs, config/settings.rs, game/battle.rs: values *)

\* Skill::default()
SkillDefault ==
    [ cooldown |-> 0, max_cooldown |-> 6, requires_target |-> FALSE,
      is_damage_buff |-> FALSE, is_np_charge |-> FALSE, np_charge_amount |-> 0 ]

\* Servant::new(class, _)
ServantNew(class) ==
    [ class |-> class, np_gauge |-> 0,
      skills |-> << SkillDefault, SkillDefault, SkillDefault >>,
      np_type |-> "Buster", is_alive |-> TRUE, buff_count |-> 0 ]

\* Servant::can_np
can_np(servant) == servant.np_gauge >= 100 /\ servant.is_alive

\* Servant::can_overcharge
can_overcharge(servant) == servant.np_gauge >= 200

\* Skill::is_ready without the cooldown test
skill_always_ready(skill) == TRUE

\* Skill::is_ready
skill_is_ready(skill) == skill.cooldown = 0

\* Card::new(card_type, servant_idx, position)
CardNew(card_type, servant_idx, position) ==
    [ card_type |-> card_type, servant_idx |-> servant_idx, position |-> position ]

\* Settings::default(), the fields the decision engine reads
SettingsDefault ==
    [ card_priority |->
          [ first_choice |-> "Buster", second_choice |-> "Arts", third_choice |-> "Quick" ],
      np_threshold |-> 100,
      target_low_hp_first |-> TRUE,
      prioritize_class_advantage |-> TRUE,
      skill_settings |->
          [ auto_use_skills |-> TRUE, np_charge_priority |-> TRUE,
            skill_order |-> None, use_master_skills |-> TRUE ],
      timings |-> [ attack_wait |-> 3000 ] ]

\* MasterSkills::default()
MasterSkillsDefault == [ cooldowns |-> << 0, 0, 0 >>, available |-> TRUE ]

\* MasterSkills::is_ready
master_is_ready(ms, skill_idx) ==
    skill_idx < 3 /\ ms.cooldowns[skill_idx + 1] = 0 /\ ms.available

NoReturn == [ op |-> "none" ]

\* BattleState::default(), Settings::default(), and no call made yet
BattleStateNew ==
    /\ phase = "Unknown"
    /\ current_wave = EnemyWaveNew(1, 3)
    /\ total_waves = 3
    /\ servants = << >>
    /\ available_cards = << >>
    /\ selected_cards = << >>
    /\ np_available = << FALSE, FALSE, FALSE >>
    /\ target_enemy = None
    /\ master_skills = MasterSkillsDefault
    /\ settings = SettingsDefault
    /\ ret = NoReturn

\* BattleState::is_final_wave
is_final_wave(wave) == wave_is_final(wave)

\* BattleState::servants_with_np
servants_with_np(svs) ==
    SelectSeq([ i \in 1..Len(svs) |-> i - 1 ], LAMBDA i : can_np(svs[i + 1]))

-----------------------------------------------------------------------------
(* ai/enemy_priority.rs: EnemyPrioritizer *)

\* The largest break-bar count of the enemies the model draws.
MaxBreakBars == 2

\* The loop of score_enemy that finds the best multiplier of an alive servant,
\* starting from 1.0 (in halves).
RECURSIVE max_advantage(_, _, _)
max_advantage(svs, enemy_class, best) ==
    IF svs = << >> THEN best
    ELSE LET s == Head(svs)
             adv == damage_multiplier(s, enemy_class)
         IN  max_advantage(Tail(svs), enemy_class,
                           IF s.is_alive /\ adv > best THEN adv ELSE best)

\* score_enemy with the low-HP term not inverted: hp instead of 1.0 - hp
score_enemy_hp_not_inverted(enemy, svs, s) ==
    LET hp_term ==
            IF s.target_low_hp_first
            THEN enemy.hp_percent * 10
            ELSE enemy.hp_percent
        threat_term ==
            CASE threat_level(enemy) = "Critical" -> 1500
              [] threat_level(enemy) = "High"     -> 1050
              [] threat_level(enemy) = "Medium"   -> 600
              [] threat_level(enemy) = "Low"      -> 150
        base == hp_term + threat_term
        with_class ==
            IF s.prioritize_class_advantage
            THEN base * max_advantage(svs, enemy.class, 2) * 12
            ELSE base
        with_bars ==
            IF has_break_bars(enemy)
            THEN with_class * Pow(4, enemy.break_bars)
                            * Pow(5, MaxBreakBars - enemy.break_bars)
            ELSE with_class * Pow(5, MaxBreakBars)
        with_boss == IF enemy.is_boss THEN with_bars * 3 ELSE with_bars * 2
    IN  IF enemy.has_dangerous_np THEN with_boss * 2 ELSE with_boss

\* EnemyPrioritizer::score_enemy with hp_weight 1.0, class_advantage_weight
\* 1.2, threat_weight 1.5 and break_bar_weight 0.8.  The result is the score
\* times 100 * 5^MaxBreakBars * 2, and times 20 more when class advantage is
\* prioritized.
score_enemy(enemy, svs, s) ==
    LET hp_term ==
            IF s.target_low_hp_first
            THEN (100 - enemy.hp_percent) * 10      \* (1.0 - hp) * 1.0 * 10.0
            ELSE enemy.hp_percent                   \* hp * 1.0
        threat_term ==                              \* level * 1.5
            CASE threat_level(enemy) = "Critical" -> 1500
              [] threat_level(enemy) = "High"     -> 1050
              [] threat_level(enemy) = "Medium"   -> 600
              [] threat_level(enemy) = "Low"      -> 150
        base == hp_term + threat_term
        with_class ==                               \* max_advantage * 1.2
            IF s.prioritize_class_advantage
            THEN base * max_advantage(svs, enemy.class, 2) * 12
            ELSE base
        with_bars ==                                \* 0.8 ^ break_bars
            IF has_break_bars(enemy)
            THEN with_class * Pow(4, enemy.break_bars)
                            * Pow(5, MaxBreakBars - enemy.break_bars)
            ELSE with_class * Pow(5, MaxBreakBars)
        with_boss == IF enemy.is_boss THEN with_bars * 3 ELSE with_bars * 2  \* 1.5
    IN  IF enemy.has_dangerous_np THEN with_boss * 2 ELSE with_boss          \* 2.0

\* prioritize returning the index into the alive list instead of the position
prioritize_by_index(wave, svs, s) ==
    LET alive == alive_enemies(wave)
        scores == [ i \in 1..Len(alive) |->
                      [ idx |-> i - 1,
                        score |-> score_enemy(alive[i], svs, s) ] ]
    IN  IF alive = << >> THEN None
        ELSE IF Len(alive) = 1 THEN Some(0)
        ELSE Some(SortDesc(scores)[1].idx)

\* EnemyPrioritizer::prioritize
prioritize(wave, svs, s) ==
    LET alive == alive_enemies(wave)
        scores == [ i \in 1..Len(alive) |->
                      [ idx |-> alive[i].position,
                        score |-> score_enemy(alive[i], svs, s) ] ]
    IN  IF alive = << >> THEN None
        ELSE IF Len(alive) = 1 THEN Some(alive[1].position)
        ELSE Some(SortDesc(scores)[1].idx)

\* Iterator::fold(init, f32::max) and fold(init, f32::min) over HP values
RECURSIVE fold_max(_, _)
fold_max(hs, acc) ==
    IF hs = << >> THEN acc
    ELSE fold_max(Tail(hs), IF Head(hs) > acc THEN Head(hs) ELSE acc)

RECURSIVE fold_min(_, _)
fold_min(hs, acc) ==
    IF hs = << >> THEN acc
    ELSE fold_min(Tail(hs), IF Head(hs) < acc THEN Head(hs) ELSE acc)

\* should_use_aoe without the alive filter
should_use_aoe_with_dead(wave) ==
    LET alive == wave.enemies
        hp_values == [ i \in 1..Len(alive) |-> alive[i].hp_percent ]
        max_hp == fold_max(hp_values, 0)
        min_hp == fold_min(hp_values, 100)
    IN  IF Len(alive) < 2 THEN FALSE ELSE (max_hp - min_hp) < 30

\* EnemyPrioritizer::should_use_aoe
should_use_aoe(wave) ==
    LET alive == alive_enemies(wave)
        hp_values == [ i \in 1..Len(alive) |-> alive[i].hp_percent ]
        max_hp == fold_max(hp_values, 0)
        min_hp == fold_min(hp_values, 100)
    IN  IF Len(alive) < 2 THEN FALSE ELSE (max_hp - min_hp) < 30

-----------------------------------------------------------------------------
(* Targeting: prioritize and should_use_aoe over the waves recognition can  *)
(* deliver.                                                                 *)

\* Enemy positions 0..2 (game/enemy.rs: "Position in enemy lineup (0-2)")
EnemySlots == 3

HpValues == { 20, 50, 55, 60, 80 }

\* A plain enemy, and a boss with break bars and a dangerous NP
EnemyProfiles ==
    { [ class |-> "Lancer", break_bars |-> 0, is_boss |-> FALSE,
        has_dangerous_np |-> FALSE ],
      [ class |-> "Archer", break_bars |-> MaxBreakBars, is_boss |-> TRUE,
        has_dangerous_np |-> TRUE ] }

\* What can stand in one slot: nothing, an alive enemy, or a dead one at 0 HP
SlotContents ==
    { None }
    \cup { Some([ EnemyDefault EXCEPT !.class = p.class, !.break_bars = p.break_bars,
                                      !.is_boss = p.is_boss,
                                      !.has_dangerous_np = p.has_dangerous_np,
                                      !.hp_percent = h ]) :
             p \in EnemyProfiles, h \in HpValues }
    \cup { Some([ EnemyDefault EXCEPT !.class = "Lancer", !.hp_percent = 0,
                                      !.is_alive = FALSE ]) }

\* The enemies of a wave, in slot order, each carrying the position of its slot
EnemiesOf(slots) ==
    LET present == SelectSeq([ i \in 1..EnemySlots |-> i - 1 ],
                             LAMBDA p : IsSome(slots[p]))
    IN  [ i \in 1..Len(present) |->
            [ Unwrap(slots[present[i]]) EXCEPT !.position = present[i] ] ]

InitTarget ==
    /\ phase = "CardSelection"
    /\ total_waves = 3
    /\ \E slots \in [ 0..(EnemySlots - 1) -> SlotContents ] :
           current_wave = [ EnemyWaveNew(1, 3) EXCEPT !.enemies = EnemiesOf(slots) ]
    /\ servants \in { << >>, << ServantNew("Saber") >> }
    /\ available_cards = << >>
    /\ selected_cards = << >>
    /\ np_available = << FALSE, FALSE, FALSE >>
    /\ target_enemy = None
    /\ master_skills = MasterSkillsDefault
    /\ \E low \in BOOLEAN, adv \in BOOLEAN :
           settings = [ SettingsDefault EXCEPT !.target_low_hp_first = low,
                                               !.prioritize_class_advantage = adv ]
    /\ ret = NoReturn

Unchanged_state ==
    UNCHANGED << phase, current_wave, total_waves, servants, available_cards,
                 selected_cards, np_available, target_enemy, master_skills, settings >>

\* An f32 that is not a number: the value of hp_percent outside the hundredths
NaN == -1

\* score_enemy returns NaN exactly for an enemy whose hp_percent is NaN: the
\* HP term is added in both branches and every later step keeps a NaN
score_is_nan(enemy) == enemy.hp_percent = NaN

\* b.1.partial_cmp(&a.1).unwrap() in prioritize: the sort of 2 or more scores
\* compares every score at least once and panics on a NaN
prioritize_panics(wave) ==
    /\ alive_count(wave) >= 2
    /\ \E i \in 1..alive_count(wave) : score_is_nan(alive_enemies(wave)[i])

\* A call of EnemyPrioritizer::prioritize(&state.current_wave, &state.servants, settings)
Prioritize ==
    /\ ret' = [ op |-> "prioritize",
                panic |-> prioritize_panics(current_wave),
                target |-> IF prioritize_panics(current_wave) THEN None
                           ELSE prioritize(current_wave, servants, settings) ]
    /\ Unchanged_state

\* A call of EnemyPrioritizer::should_use_aoe(&state.current_wave)
ShouldUseAoe ==
    /\ ret' = [ op |-> "should_use_aoe", aoe |-> should_use_aoe(current_wave) ]
    /\ Unchanged_state

NextTarget == Prioritize \/ ShouldUseAoe

SpecTarget == InitTarget /\ [][NextTarget]_vars

-----------------------------------------------------------------------------
(* Claims about targeting, checked under SpecTarget *)

\* The indices (1-based) of the alive enemies of the current wave
AliveIdx == { i \in 1..Len(current_wave.enemies) : current_wave.enemies[i].is_alive }

SameProfile(a, b) ==
    /\ a.class = b.class
    /\ a.is_boss = b.is_boss
    /\ a.has_dangerous_np = b.has_dangerous_np
    /\ a.break_bars = b.break_bars

\* C6: prioritize returns none when no enemy is alive, and with exactly one
\* alive enemy it returns that enemy's position, whatever the settings, the
\* allied units and the enemy's attributes.
C6_SingleEnemyTargeted ==
    ret.op = "prioritize" =>
        /\ AliveIdx = {} => ret.target = None
        /\ Cardinality(AliveIdx) = 1 =>
               \A i \in AliveIdx : ret.target = Some(current_wave.enemies[i].position)

\* C6 witness: a lone survivor in the last slot, behind two dead enemies, is targeted
C6_Witness ==
    /\ ret.op = "prioritize"
    /\ Len(current_wave.enemies) = 3
    /\ AliveIdx = { 3 }
    /\ current_wave.enemies[3].is_boss
    /\ ~settings.target_low_hp_first
    /\ ret.target = Some(2)

\* C7: with low-HP-first enabled and two or more alive enemies that differ
\* only in HP, prioritize returns the position of an enemy whose HP is the
\* lowest among the alive ones.
C7_LowestHpTargeted ==
    ( /\ ret.op = "prioritize"
      /\ settings.target_low_hp_first
      /\ Cardinality(AliveIdx) >= 2
      /\ \A i, j \in AliveIdx :
             SameProfile(current_wave.enemies[i], current_wave.enemies[j]) )
    => /\ IsSome(ret.target)
       /\ \E i \in AliveIdx :
              /\ current_wave.enemies[i].position = Unwrap(ret.target)
              /\ \A j \in AliveIdx :
                     current_wave.enemies[i].hp_percent <= current_wave.enemies[j].hp_percent

\* C7 witness: HP 0.8, 0.2, 0.5 at positions 0, 1, 2 selects position 1
C7_Witness ==
    /\ ret.op = "prioritize"
    /\ settings.target_low_hp_first
    /\ Len(current_wave.enemies) = 3
    /\ AliveIdx = { 1, 2, 3 }
    /\ \A i \in AliveIdx : ~current_wave.enemies[i].is_boss
    /\ [ i \in 1..3 |-> current_wave.enemies[i].hp_percent ] = << 80, 20, 50 >>
    /\ ret.target = Some(1)

\* C8: should_use_aoe is true exactly when at least 2 enemies are alive and
\* the largest and smallest HP among the alive enemies differ by less than
\* 0.3; dead enemies are ignored.
C8_AoeIffSmallSpread ==
    ret.op = "should_use_aoe" =>
        ( ret.aoe <=>
            /\ Cardinality(AliveIdx) >= 2
            /\ \A i, j \in AliveIdx :
                   current_wave.enemies[i].hp_percent
                     - current_wave.enemies[j].hp_percent < 30 )

\* C8 witness: alive HP 0.5, 0.6, 0.55 (spread 0.1) gives true
C8_Witness ==
    /\ ret.op = "should_use_aoe"
    /\ AliveIdx = { 1, 2, 3 }
    /\ [ i \in 1..3 |-> current_wave.enemies[i].hp_percent ] = << 50, 60, 55 >>
    /\ ret.aoe

-----------------------------------------------------------------------------
(* game/cards.rs: cards and chains *)

CardTypes == { "Buster", "Arts", "Quick", "NP", "Unknown" }

\* detect_chain_type looking at the first two cards only
detect_chain_type_first_two(cards) ==
    LET types == [ i \in 1..2 |-> cards[i].card_type ]
        non_np_types == SelectSeq(types, LAMBDA t : t # "NP")
    IN  IF Len(non_np_types) = 2
           /\ \A i \in 1..Len(non_np_types) : non_np_types[i] = non_np_types[1]
        THEN CASE non_np_types[1] = "Buster" -> "Buster"
               [] non_np_types[1] = "Arts"   -> "Arts"
               [] non_np_types[1] = "Quick"  -> "Quick"
               [] OTHER                      -> "None"
        ELSE "None"

\* Chain::detect_chain_type
detect_chain_type(cards) ==
    LET types == [ i \in 1..3 |-> cards[i].card_type ]
        non_np_types == SelectSeq(types, LAMBDA t : t # "NP")
    IN  IF Len(non_np_types) = 3
           /\ \A i \in 1..Len(non_np_types) : non_np_types[i] = non_np_types[1]
        THEN CASE non_np_types[1] = "Buster" -> "Buster"
               [] non_np_types[1] = "Arts"   -> "Arts"
               [] non_np_types[1] = "Quick"  -> "Quick"
               [] OTHER                      -> "None"
        ELSE "None"

\* detect_brave_chain comparing the first two cards only
detect_brave_chain_first_two(cards) ==
    LET servant_idx == cards[1].servant_idx
    IN  \A i \in 1..2 : cards[i].servant_idx = servant_idx

\* Chain::detect_brave_chain
detect_brave_chain(cards) ==
    LET servant_idx == cards[1].servant_idx
    IN  \A i \in 1..3 : cards[i].servant_idx = servant_idx

\* Chain::new
ChainNew(cards) ==
    [ cards |-> cards,
      chain_type |-> detect_chain_type(cards),
      is_brave |-> detect_brave_chain(cards) ]

\* The index triples with i < j < k only: selections without ordering
chain_indices_increasing(n) ==
    SelectSeq([ t \in 1..(n * n * n) |->
                  << (t - 1) \div (n * n), ((t - 1) \div n) % n, (t - 1) % n >> ],
              LAMBDA p : p[1] < p[2] /\ p[2] < p[3])

\* The index triples (i, j, k) of the three nested loops of
\* calculate_possible_chains over n cards, in the order the loops visit them:
\* i outermost, k innermost, indices that coincide skipped
chain_indices(n) ==
    SelectSeq([ t \in 1..(n * n * n) |->
                  << (t - 1) \div (n * n), ((t - 1) \div n) % n, (t - 1) % n >> ],
              LAMBDA p : p[1] # p[2] /\ p[1] # p[3] /\ p[2] # p[3])

\* calculate_possible_chains: every ordered selection of 3 distinct cards
calculate_possible_chains(cards) ==
    IF Len(cards) < 3 THEN << >>
    ELSE LET indices == chain_indices(Len(cards))
         IN  [ m \in 1..Len(indices) |->
                 ChainNew(<< cards[indices[m][1] + 1], cards[indices[m][2] + 1],
                             cards[indices[m][3] + 1] >>) ]

-----------------------------------------------------------------------------
(* ai/skill_usage.rs: SkillDecisionEngine.  Priorities are carried in tenths: *)
(* 2.0 is 20, 1.5 is 15 and the 0.5 threshold is 5.                           *)

\* SkillDecisionEngine::new
np_charge_priority == 20

damage_buff_priority == 15

\* SkillDecisionEngine::evaluate_skill
evaluate_skill(servant_idx, skill_idx, servant, wave, s) ==
    LET skill == servant.skills[skill_idx + 1]
        current_np == servant.np_gauge
        charge_amount == skill.np_charge_amount
        charge_priority ==
            IF ~skill.is_np_charge THEN 0
            ELSE IF current_np < 100 /\ current_np + charge_amount >= 100
                 THEN np_charge_priority * 3
            ELSE IF s.skill_settings.np_charge_priority THEN np_charge_priority
            ELSE 0
        target == IF skill.is_np_charge /\ skill.requires_target
                  THEN Some(servant_idx) ELSE None
        priority ==
            IF ~skill.is_damage_buff THEN charge_priority
            ELSE IF is_final_wave(wave) \/ can_np(servant)
                 THEN damage_buff_priority * 2
            ELSE damage_buff_priority
    IN  IF priority > 5
        THEN Some([ servant_idx |-> servant_idx, skill_idx |-> skill_idx,
                    target |-> target, priority |-> priority,
                    is_master_skill |-> FALSE ])
        ELSE None

\* iter().position(|s| s.can_np())
position_can_np(svs) ==
    LET with_np == servants_with_np(svs)
    IN  IF with_np = << >> THEN None ELSE Some(with_np[1])

\* SkillDecisionEngine::evaluate_master_skill
evaluate_master_skill(skill_idx, svs, wave, s) ==
    LET dps_idx == position_can_np(svs)
        priority ==
            IF skill_idx = 0
            THEN IF is_final_wave(wave) /\ Len(servants_with_np(svs)) >= 2
                 THEN 20 ELSE 0
            ELSE 0
    IN  IF skill_idx = 1 /\ IsSome(dps_idx)
        THEN Some([ servant_idx |-> 0, skill_idx |-> skill_idx,
                    target |-> Some(Unwrap(dps_idx)), priority |-> 15,
                    is_master_skill |-> TRUE ])
        ELSE IF priority > 5
        THEN Some([ servant_idx |-> 0, skill_idx |-> skill_idx, target |-> None,
                    priority |-> priority, is_master_skill |-> TRUE ])
        ELSE None

\* recommendations.sort_by(|a, b| b.priority.partial_cmp(&a.priority)): stable,
\* descending by priority
RECURSIVE InsertByPriority(_, _)
InsertByPriority(sorted, x) ==
    IF sorted = << >> THEN << x >>
    ELSE IF Head(sorted).priority < x.priority THEN << x >> \o sorted
    ELSE << Head(sorted) >> \o InsertByPriority(Tail(sorted), x)

RECURSIVE SortByPriority(_)
SortByPriority(s) ==
    IF s = << >> THEN << >>
    ELSE InsertByPriority(SortByPriority(SubSeq(s, 1, Len(s) - 1)), s[Len(s)])

\* The loop over the servants and their skills in recommend_skills, from
\* skill skill_idx of servant servant_idx on
RECURSIVE servant_recommendations(_, _, _, _, _)
servant_recommendations(svs, wave, s, servant_idx, skill_idx) ==
    IF servant_idx >= Len(svs) THEN << >>
    ELSE LET servant == svs[servant_idx + 1] IN
         IF ~servant.is_alive \/ skill_idx >= Len(servant.skills)
         THEN servant_recommendations(svs, wave, s, servant_idx + 1, 0)
         ELSE (IF skill_is_ready(servant.skills[skill_idx + 1])
               THEN evaluate_skill(servant_idx, skill_idx, servant, wave, s)
               ELSE << >>)
              \o servant_recommendations(svs, wave, s, servant_idx, skill_idx + 1)

\* The loop over the master skills in recommend_skills, from skill_idx on
RECURSIVE master_recommendations(_, _, _, _, _)
master_recommendations(svs, wave, ms, s, skill_idx) ==
    IF skill_idx >= 3 THEN << >>
    ELSE (IF master_is_ready(ms, skill_idx)
          THEN evaluate_master_skill(skill_idx, svs, wave, s)
          ELSE << >>)
         \o master_recommendations(svs, wave, ms, s, skill_idx + 1)

\* SkillDecisionEngine::recommend_skills
recommend_skills(svs, wave, ms, s) ==
    SortByPriority(
        servant_recommendations(svs, wave, s, 0, 0)
        \o (IF s.skill_settings.use_master_skills
            THEN master_recommendations(svs, wave, ms, s, 0)
            ELSE << >>))

-----------------------------------------------------------------------------

(* ai/np_timing.rs: NPTimingEngine.  A score is carried as its numerator over *)
(* 10000: the additive base in halves (denominator 2), then the factors 1.3   *)
(* as 13/10, 1 + 0.2 * buff_count as (5 + buff_count)/5, 1.1 as 11/10 and     *)
(* early_wave_threshold 0.7 as 7/10.                                          *)

\* NPTimingEngine::score_np_usage
score_np_usage(servant, wave, s) ==
    LET base == (IF servant.np_gauge >= s.np_threshold THEN 2 ELSE 0)
                + (IF is_final_wave(wave) THEN 4 ELSE 0)
                + (IF alive_count(wave) > 1 THEN 3 ELSE 0)
        alive == alive_enemies(wave)
        has_advantage ==
            \E i \in 1..Len(alive) : damage_multiplier(servant, alive[i].class) > 2
    IN  base
        * (IF has_advantage THEN 13 ELSE 10)
        * (IF servant.buff_count > 0 THEN 5 + servant.buff_count ELSE 5)
        * (IF can_overcharge(servant) THEN 11 ELSE 10)
        * (IF ~is_final_wave(wave) THEN 7 ELSE 10)

\* The NP types of np_order and the three passes of optimize_np_order
np_of_type(np_order, svs, np_type) ==
    SelectSeq(np_order, LAMBDA idx : idx < Len(svs) /\ svs[idx + 1].np_type = np_type)

\* optimize_np_order leaving the score order as it is
optimize_np_order_kept(np_order, svs) == np_order

\* NPTimingEngine::optimize_np_order
optimize_np_order(np_order, svs) ==
    IF Len(np_order) < 2 THEN np_order
    ELSE LET optimized == np_of_type(np_order, svs, "Arts")
                          \o np_of_type(np_order, svs, "Quick")
                          \o np_of_type(np_order, svs, "Buster")
         IN  IF Len(optimized) = Len(np_order) THEN optimized ELSE np_order

\* decide_np_usage without the filter on the score
decide_np_usage_unfiltered(svs, wave, np_avail, s) ==
    LET available_nps ==
            SelectSeq([ i \in 1..Len(svs) |-> i - 1 ],
                      LAMBDA idx : can_np(svs[idx + 1]) /\ np_avail[idx + 1])
        scored == [ i \in 1..Len(available_nps) |->
                      [ idx |-> available_nps[i],
                        score |-> score_np_usage(svs[available_nps[i] + 1], wave, s) ] ]
        scored_nps == SortDesc(scored)
        np_users == Take([ i \in 1..Len(scored_nps) |-> scored_nps[i].idx ], 3)
    IN  IF available_nps = << >> THEN << >>
        ELSE optimize_np_order(np_users, svs)

\* NPTimingEngine::decide_np_usage
decide_np_usage(svs, wave, np_avail, s) ==
    LET available_nps ==
            SelectSeq([ i \in 1..Len(svs) |-> i - 1 ],
                      LAMBDA idx : can_np(svs[idx + 1]) /\ np_avail[idx + 1])
        scored == [ i \in 1..Len(available_nps) |->
                      [ idx |-> available_nps[i],
                        score |-> score_np_usage(svs[available_nps[i] + 1], wave, s) ] ]
        scored_nps == SortDesc(SelectSeq(scored, LAMBDA e : e.score > 5000))
        np_users == Take([ i \in 1..Len(scored_nps) |-> scored_nps[i].idx ], 3)
    IN  IF available_nps = << >> THEN << >>
        ELSE optimize_np_order(np_users, svs)

-----------------------------------------------------------------------------

(* ai/card_selector.rs: CardSelector.  A chain score is a product of up to  *)
(* eighteen factors and is carried exactly as a natural number in base      *)
(* 10000, least significant digit first and without leading zeros.          *)

\* CardPriority::score
card_priority_score(card_priority, card_type) ==
    IF card_type = card_priority.first_choice THEN 3
    ELSE IF card_type = card_priority.second_choice THEN 2
    ELSE IF card_type = card_priority.third_choice THEN 1
    ELSE 0

\* A natural number below 10000 as a base-10000 number
BigOf(n) == IF n = 0 THEN << >> ELSE << n >>

\* x * k + c for a factor 0 < k < 10000 and a carry c < 10000
RECURSIVE BigMulCarry(_, _, _)
BigMulCarry(x, k, c) ==
    IF x = << >> THEN BigOf(c)
    ELSE LET v == x[1] * k + c
         IN  << v % 10000 >> \o BigMulCarry(Tail(x), k, v \div 10000)

\* x * k^n
RECURSIVE BigTimes(_, _, _)
BigTimes(x, k, n) ==
    IF n = 0 THEN x ELSE BigTimes(BigMulCarry(x, k, 0), k, n - 1)

\* x < y
BigLess(x, y) ==
    IF Len(x) # Len(y) THEN Len(x) < Len(y)
    ELSE \E i \in 1..Len(x) :
             x[i] < y[i] /\ \A j \in (i + 1)..Len(x) : x[j] = y[j]

\* servants.get(idx)
servants_get(svs, idx) == IF idx < Len(svs) THEN Some(svs[idx + 1]) ELSE None

\* How many times score_chain multiplies by class_advantage_weight: once for
\* every card with a known owner and every alive enemy the owner has the
\* advantage against
class_advantage_hits(cards, svs, enemies) ==
    LET alive == alive_enemies(enemies)
    IN  Cardinality({ p \in (1..Len(cards)) \X (1..Len(alive)) :
            /\ IsSome(servants_get(svs, cards[p[1]].servant_idx))
            /\ damage_multiplier(Unwrap(servants_get(svs, cards[p[1]].servant_idx)),
                                 alive[p[2]].class) > 2 })

\* CardSelector::score_chain.  The numerator of the score over the
\* denominator 20 * 10 * 10 * 5^(3 * alive) * 10^3, which is the same for all
\* chains of one call: chain_weight * 1.2 is 36/20, chain_weight * 1.1 is
\* 33/20, chain_weight * 1.0 is 30/20, brave_chain_weight is 26/20 and 13/10,
\* first_card_weight is 11/10, class_advantage_weight is 6/5 and the NP boost
\* is 11/10.
score_chain(chain, svs, enemies, np_decisions, s) ==
    LET cards == chain.cards
        base == card_priority_score(s.card_priority, cards[1].card_type)
                + card_priority_score(s.card_priority, cards[2].card_type)
                + card_priority_score(s.card_priority, cards[3].card_type)
        chain_type_factor ==
            CASE chain.chain_type = "Buster" -> 36
              [] chain.chain_type = "Arts"   -> 33
              [] chain.chain_type = "Quick"  -> 30
              [] chain.chain_type = "Brave"  -> 26
              [] OTHER                       -> 20
        first_card == cards[1]
        first_card_bonus ==
            \/ first_card.card_type = "Buster" /\ s.card_priority.first_choice = "Buster"
            \/ first_card.card_type = "Arts" /\ s.card_priority.first_choice = "Arts"
        class_slots == 3 * alive_count(enemies)
        class_hits == IF s.prioritize_class_advantage
                      THEN class_advantage_hits(cards, svs, enemies) ELSE 0
        np_hits == Cardinality({ i \in 1..3 : Contains(np_decisions, cards[i].servant_idx) })
    IN  BigTimes(BigTimes(BigTimes(BigTimes(
            BigMulCarry(BigMulCarry(BigMulCarry(BigOf(base),
                chain_type_factor, 0),
                IF chain.is_brave THEN 13 ELSE 10, 0),
                IF first_card_bonus THEN 11 ELSE 10, 0),
            6, class_hits), 5, class_slots - class_hits),
            11, np_hits), 10, 3 - np_hits)

\* CardSelector::score_individual_card.  The numerator of the score over
\* 2^alive * 5: an advantage in halves, 1.2 as 6/5.
score_individual_card(card, svs, enemies, s) ==
    LET alive == alive_enemies(enemies)
        owner == servants_get(svs, card.servant_idx)
        RECURSIVE advantages(_)
        advantages(i) ==
            IF i > Len(alive) THEN 1
            ELSE (IF s.prioritize_class_advantage /\ IsSome(owner)
                     /\ damage_multiplier(Unwrap(owner), alive[i].class) > 2
                  THEN damage_multiplier(Unwrap(owner), alive[i].class) ELSE 2)
                 * advantages(i + 1)
    IN  card_priority_score(s.card_priority, card.card_type)
        * advantages(1)
        * (IF IsSome(owner) /\ Unwrap(owner).buff_count > 0 THEN 6 ELSE 5)

\* select_best_individual_cards without the sort
select_best_unsorted(cards, svs, enemies, s) == Take(cards, 3)

\* CardSelector::select_best_individual_cards
select_best_individual_cards(cards, svs, enemies, s) ==
    LET scored_cards == [ i \in 1..Len(cards) |->
                            [ card |-> cards[i],
                              score |-> score_individual_card(cards[i], svs, enemies, s) ] ]
        top == Take(SortDesc(scored_cards), 3)
    IN  [ i \in 1..Len(top) |-> top[i].card ]

\* The loop of select_cards replacing the best chain by one of equal score
RECURSIVE best_chain_or_equal(_, _, _)
best_chain_or_equal(scores, i, best) ==
    IF i > Len(scores) THEN best
    ELSE IF ~BigLess(scores[i], scores[best]) THEN best_chain_or_equal(scores, i + 1, i)
    ELSE best_chain_or_equal(scores, i + 1, best)

\* The loop of select_cards over the scored chains, from chain i on: a chain
\* replaces the best one only with a strictly greater score
RECURSIVE best_chain(_, _, _)
best_chain(scores, i, best) ==
    IF i > Len(scores) THEN best
    ELSE IF BigLess(scores[best], scores[i]) THEN best_chain(scores, i + 1, i)
    ELSE best_chain(scores, i + 1, best)

\* CardSelector::select_cards
select_cards(cards, svs, enemies, np_decisions, s) ==
    IF cards = << >> THEN << >>
    ELSE LET chains == calculate_possible_chains(cards)
             scores == [ i \in 1..Len(chains) |->
                           score_chain(chains[i], svs, enemies, np_decisions, s) ]
         IN  IF chains = << >>
             THEN select_best_individual_cards(cards, svs, enemies, s)
             ELSE chains[best_chain(scores, 2, 1)].cards

-----------------------------------------------------------------------------

(* ai/mod.rs: BattleAI.  A ShebaAction is a record with a tag; a call that   *)
(* ends in a panic returns [tag |-> "Panic"].                                *)

\* state.np_available[idx] for a servant beyond the three NP slots
\* (np_timing.rs: the filter of decide_np_usage reads it after can_np)
np_usage_panics(svs) == \E idx \in 3..(Len(svs) - 1) : can_np(svs[idx + 1])

\* decide_skill_usage taking the last recommendation
decide_skill_usage_last(svs, wave, ms, s) ==
    IF ~s.skill_settings.auto_use_skills THEN None
    ELSE LET skill_recommendations == recommend_skills(svs, wave, ms, s)
         IN  IF skill_recommendations = << >> THEN None
             ELSE LET rec == skill_recommendations[Len(skill_recommendations)]
                  IN  Some([ tag |-> "UseSkill", servant_idx |-> rec.servant_idx,
                             skill_idx |-> rec.skill_idx, target |-> rec.target ])

\* BattleAI::decide_skill_usage
decide_skill_usage(svs, wave, ms, s) ==
    IF ~s.skill_settings.auto_use_skills THEN None
    ELSE LET skill_recommendations == recommend_skills(svs, wave, ms, s)
         IN  IF skill_recommendations = << >> THEN None
             ELSE LET rec == skill_recommendations[1]
                  IN  Some([ tag |-> "UseSkill", servant_idx |-> rec.servant_idx,
                             skill_idx |-> rec.skill_idx, target |-> rec.target ])

\* The padding loop without the test against the number of available cards
RECURSIVE pad_card_indices_to_three(_, _)
pad_card_indices_to_three(card_indices, available) ==
    IF Len(card_indices) < 3
    THEN LET free == { i \in 0..4 : ~Contains(card_indices, i) }
         IN  pad_card_indices_to_three(
                 Append(card_indices, CHOOSE i \in free : \A j \in free : i <= j),
                 available)
    ELSE card_indices

\* The padding loop of decide_card_selection: while fewer than 3 entries and
\* fewer entries than available cards, push the lowest slot of 0..4 that is
\* not in the list.  With fewer than 3 entries one of the 5 slots is free.
RECURSIVE pad_card_indices(_, _)
pad_card_indices(card_indices, available) ==
    IF Len(card_indices) < 3 /\ Len(card_indices) < available
    THEN LET free == { i \in 0..4 : ~Contains(card_indices, i) }
         IN  pad_card_indices(
                 Append(card_indices, CHOOSE i \in free : \A j \in free : i <= j),
                 available)
    ELSE card_indices

\* The index list of decide_card_selection: NPs first, then the selected
\* cards while fewer than 3 entries, then the padding
build_card_indices(np_decisions, card_selection, np_avail, available) ==
    LET nps == SelectSeq(np_decisions, LAMBDA servant_idx : np_avail[servant_idx + 1])
        np_indices == [ i \in 1..Len(nps) |-> 5 + nps[i] ]
        positions == [ i \in 1..Len(card_selection) |-> card_selection[i].position ]
        room == IF Len(np_indices) < 3 THEN 3 - Len(np_indices) ELSE 0
    IN  pad_card_indices(np_indices \o Take(positions, room), available)

\* decide_card_selection selecting cards before it looks at the target
decide_card_selection_no_retarget(svs, wave, cards, np_avail, target, s) ==
    IF prioritize_panics(wave) \/ np_usage_panics(svs) THEN [ tag |-> "Panic" ]
    ELSE LET np_decisions == decide_np_usage(svs, wave, np_avail, s)
             card_selection == select_cards(cards, svs, wave, np_decisions, s)
         IN  IF card_selection # << >>
             THEN [ tag |-> "SelectCards",
                    card_indices |-> build_card_indices(np_decisions, card_selection,
                                                        np_avail, Len(cards)) ]
             ELSE [ tag |-> "Wait", duration_ms |-> 500 ]

\* decide_card_selection retargeting without a look at state.target_enemy
decide_card_selection_always_retarget(svs, wave, cards, np_avail, target, s) ==
    IF prioritize_panics(wave) \/ np_usage_panics(svs) THEN [ tag |-> "Panic" ]
    ELSE LET target_enemy_new == prioritize(wave, svs, s)
             np_decisions == decide_np_usage(svs, wave, np_avail, s)
             card_selection == select_cards(cards, svs, wave, np_decisions, s)
         IN  IF card_selection # << >>
             THEN IF IsSome(target_enemy_new)
                  THEN [ tag |-> "TargetEnemy", enemy_idx |-> Unwrap(target_enemy_new) ]
                  ELSE [ tag |-> "SelectCards",
                         card_indices |-> build_card_indices(np_decisions, card_selection,
                                                             np_avail, Len(cards)) ]
             ELSE [ tag |-> "Wait", duration_ms |-> 500 ]

\* BattleAI::decide_card_selection
decide_card_selection(svs, wave, cards, np_avail, target, s) ==
    IF prioritize_panics(wave) \/ np_usage_panics(svs) THEN [ tag |-> "Panic" ]
    ELSE LET target_enemy_new == prioritize(wave, svs, s)
             np_decisions == decide_np_usage(svs, wave, np_avail, s)
             card_selection == select_cards(cards, svs, wave, np_decisions, s)
         IN  IF card_selection # << >>
             THEN IF IsSome(target_enemy_new) /\ target # target_enemy_new
                  THEN [ tag |-> "TargetEnemy", enemy_idx |-> Unwrap(target_enemy_new) ]
                  ELSE [ tag |-> "SelectCards",
                         card_indices |-> build_card_indices(np_decisions, card_selection,
                                                             np_avail, Len(cards)) ]
             ELSE [ tag |-> "Wait", duration_ms |-> 500 ]

\* decide_action waiting attack_wait in every phase that waits
decide_action_one_wait(ph, svs, wave, cards, np_avail, target, ms, s) ==
    IF ph \in { "Victory", "Defeat" } THEN [ tag |-> "None" ]
    ELSE [ tag |-> "Wait", duration_ms |-> s.timings.attack_wait ]

\* BattleAI::decide_action
decide_action(ph, svs, wave, cards, np_avail, target, ms, s) ==
    CASE ph = "CommandPhase" ->
             LET skill_action == decide_skill_usage(svs, wave, ms, s)
             IN  IF IsSome(skill_action) THEN Unwrap(skill_action)
                 ELSE [ tag |-> "TapAttack" ]
      [] ph = "CardSelection" ->
             decide_card_selection(svs, wave, cards, np_avail, target, s)
      [] ph \in { "PreBattle", "Unknown" } ->
             [ tag |-> "Wait", duration_ms |-> 500 ]
      [] ph \in { "AttackPhase", "EnemyPhase" } ->
             [ tag |-> "Wait", duration_ms |-> s.timings.attack_wait ]
      [] ph \in { "Victory", "Defeat" } ->
             [ tag |-> "None" ]

\* A call of BattleAI::decide_action(state, settings)
DecideAction ==
    /\ ret' = [ op |-> "decide_action",
                action |-> decide_action(phase, servants, current_wave, available_cards,
                                         np_available, target_enemy, master_skills,
                                         settings) ]
    /\ Unchanged_state

-----------------------------------------------------------------------------

(* Skills: recommend_skills in the command phase *)

\* The largest front line the skill specification draws
MaxServants == 2

\* A skill of the drawn loadouts
SkillOf(charge, amount, requires_target, buff) ==
    [ SkillDefault EXCEPT !.is_np_charge = charge, !.np_charge_amount = amount,
                          !.requires_target = requires_target,
                          !.is_damage_buff = buff ]

\* Skill loadouts: a targeted charge that can fill an 80% gauge, a damage buff
\* and a skill the engine has no use for; a skill that is both buff and
\* charge, a plain skill and a small untargeted charge
Loadouts ==
    { << SkillOf(TRUE, 20, TRUE, FALSE), SkillOf(FALSE, 0, FALSE, TRUE),
         SkillOf(FALSE, 0, FALSE, FALSE) >>,
      << SkillOf(TRUE, 10, FALSE, TRUE), SkillOf(FALSE, 0, FALSE, FALSE),
         SkillOf(TRUE, 10, FALSE, FALSE) >> }

\* Cooldowns of the three skills of a servant
CooldownPatterns == { << 0, 0, 0 >>, << 3, 0, 3 >> }

WithCooldowns(skills, cds) ==
    [ i \in 1..Len(skills) |-> [ skills[i] EXCEPT !.cooldown = cds[i] ] ]

\* Servants of the skill specification: alive below or at a full gauge, or
\* dead with a full gauge
SkillServants ==
    { [ ServantNew("Saber") EXCEPT !.skills = WithCooldowns(l, cds),
                                   !.np_gauge = st[1], !.is_alive = st[2] ] :
        l \in Loadouts, cds \in CooldownPatterns,
        st \in { << 80, TRUE >>, << 100, TRUE >>, << 100, FALSE >> } }

FrontLines(n, kinds) == UNION { [ 1..m -> kinds ] : m \in 0..n }

InitSkill ==
    /\ phase = "CommandPhase"
    /\ total_waves = 3
    /\ \E wave_number \in { 1, 3 } : current_wave = EnemyWaveNew(wave_number, 3)
    /\ servants \in FrontLines(MaxServants, SkillServants)
    /\ available_cards = << >>
    /\ selected_cards = << >>
    /\ np_available = << FALSE, FALSE, FALSE >>
    /\ target_enemy = None
    /\ master_skills \in
           { MasterSkillsDefault,
             [ MasterSkillsDefault EXCEPT !.available = FALSE ],
             [ MasterSkillsDefault EXCEPT !.cooldowns = << 2, 0, 0 >> ],
             [ MasterSkillsDefault EXCEPT !.cooldowns = << 0, 2, 0 >> ] }
    /\ \E auto \in BOOLEAN, charge \in BOOLEAN, master \in BOOLEAN :
           settings = [ SettingsDefault EXCEPT
                            !.skill_settings.auto_use_skills = auto,
                            !.skill_settings.np_charge_priority = charge,
                            !.skill_settings.use_master_skills = master ]
    /\ ret = NoReturn

\* A call of SkillDecisionEngine::recommend_skills(state, settings)
RecommendSkills ==
    /\ ret' = [ op |-> "recommend_skills",
                recommendations |->
                    recommend_skills(servants, current_wave, master_skills, settings) ]
    /\ Unchanged_state

\* C5: every recommendation of recommend_skills names either a skill with
\* cooldown 0 of an alive servant or a master skill that is ready (cooldown 0
\* and available), and has a priority above 0.5
C5_RecommendedSkillsReady ==
    ret.op = "recommend_skills"
        => \A i \in 1..Len(ret.recommendations) :
               LET rec == ret.recommendations[i] IN
               /\ rec.priority > 5
               /\ IF rec.is_master_skill
                  THEN /\ master_skills.cooldowns[rec.skill_idx + 1] = 0
                       /\ master_skills.available
                  ELSE /\ servants[rec.servant_idx + 1].is_alive
                       /\ servants[rec.servant_idx + 1]
                              .skills[rec.skill_idx + 1].cooldown = 0

\* Servant and master skills are recommended while a dead servant's ready
\* skills and an alive servant's skills on cooldown are passed over
C5_Witness ==
    /\ ret.op = "recommend_skills"
    /\ \E i, j \in 1..Len(ret.recommendations) :
           /\ ret.recommendations[i].is_master_skill
           /\ ~ret.recommendations[j].is_master_skill
    /\ \E i \in 1..Len(servants) :
           ~servants[i].is_alive /\ servants[i].skills[1].cooldown = 0
    /\ \E i \in 1..Len(servants) :
           servants[i].is_alive /\ servants[i].skills[1].cooldown > 0

-----------------------------------------------------------------------------

NextSkill == RecommendSkills \/ DecideAction

SpecSkill == InitSkill /\ [][NextSkill]_vars

\* What recommend_skills returns in the current state
CurrentRecommendations ==
    recommend_skills(servants, current_wave, master_skills, settings)

-----------------------------------------------------------------------------

(* Decisions: decide_action in every phase *)

BattlePhases ==
    { "PreBattle", "CommandPhase", "CardSelection", "AttackPhase", "EnemyPhase",
      "Victory", "Defeat", "Unknown" }

\* An enemy of the decision specification
EnemyOf(class, hp_percent, position, is_alive) ==
    [ EnemyDefault EXCEPT !.class = class, !.hp_percent = hp_percent,
                          !.position = position, !.is_alive = is_alive ]

\* Waves: empty, two alive enemies of which the second is the weaker, a dead
\* enemy before an alive one
DecideWaves ==
    { [ EnemyWaveNew(1, 3) EXCEPT !.enemies = enemies ] :
        enemies \in { << >>,
                      << EnemyOf("Lancer", 80, 0, TRUE), EnemyOf("Archer", 20, 1, TRUE) >>,
                      << EnemyOf("Lancer", 0, 0, FALSE), EnemyOf("Lancer", 60, 1, TRUE) >> } }

\* Servants: with a full gauge and a Buster NP, with a full gauge, an Arts NP
\* and a buff, and the default servant with an empty gauge
DecideServants ==
    { [ ServantNew("Saber") EXCEPT !.np_gauge = 100 ],
      [ ServantNew("Archer") EXCEPT !.np_gauge = 100, !.np_type = "Arts",
                                    !.buff_count = 1 ],
      ServantNew("Saber") }

\* The number of command cards dealt in a turn
HandSize == 5

\* Hands: the first n command cards of a mixed deal, for every n up to
\* HandSize, and a full deal with a Quick chain of one servant
DecideHands ==
    { SubSeq(<< CardNew("Buster", 0, 0), CardNew("Arts", 0, 1), CardNew("Quick", 0, 2),
                CardNew("Buster", 1, 3), CardNew("Arts", 1, 4) >>, 1, n) :
        n \in 0..HandSize }
    \cup { [ i \in 1..HandSize |->
               CardNew(IF i <= 3 THEN "Quick" ELSE "Buster", IF i <= 3 THEN 1 ELSE 0,
                       i - 1) ] }

InitDecide ==
    /\ phase \in BattlePhases
    /\ total_waves = 3
    /\ current_wave \in DecideWaves
    /\ servants \in FrontLines(MaxServants, DecideServants)
    /\ available_cards \in DecideHands
    /\ selected_cards = << >>
    /\ np_available \in { << FALSE, FALSE, FALSE >>, << TRUE, TRUE, TRUE >>,
                          << FALSE, TRUE, FALSE >> }
    /\ target_enemy \in { None, Some(0), Some(1) }
    /\ master_skills = MasterSkillsDefault
    /\ \E attack_wait \in { 3000, 1500 } :
           settings = [ SettingsDefault EXCEPT !.timings.attack_wait = attack_wait ]
    /\ ret = NoReturn

NextDecide == DecideAction

SpecDecide == InitDecide /\ [][NextDecide]_vars

\* What prioritize returns in the current state
CurrentTarget == prioritize(current_wave, servants, settings)

\* What decide_np_usage returns in the current state
CurrentNpDecisions == decide_np_usage(servants, current_wave, np_available, settings)

\* C1 as stated: in CardSelection, whenever the target prioritize computes
\* differs from state.target_enemy, decide_action returns TargetEnemy for the
\* computed target
C1_RetargetWheneverDifferent ==
    (ret.op = "decide_action" /\ phase = "CardSelection"
     /\ CurrentTarget # target_enemy)
        => /\ IsSome(CurrentTarget)
           /\ ret.action = [ tag |-> "TargetEnemy", enemy_idx |-> Unwrap(CurrentTarget) ]

\* C1: every action decide_action returns in CardSelection is TargetEnemy for
\* the computed target when at least one card is available and prioritize
\* computes a target that differs from state.target_enemy; it is Wait when no
\* card is available, and it is never TargetEnemy when prioritize finds no
\* enemy to target
C1_RetargetBeforeCards ==
    (ret.op = "decide_action" /\ phase = "CardSelection" /\ ret.action.tag # "Panic")
        => /\ (available_cards # << >> /\ IsSome(CurrentTarget)
               /\ CurrentTarget # target_enemy)
                  => ret.action = [ tag |-> "TargetEnemy",
                                    enemy_idx |-> Unwrap(CurrentTarget) ]
           /\ available_cards = << >>
                  => ret.action = [ tag |-> "Wait", duration_ms |-> 500 ]
           /\ CurrentTarget = None => ret.action.tag # "TargetEnemy"

\* A retarget from enemy 0 to the weaker enemy 1 with cards on the table
C1_Witness ==
    /\ ret.op = "decide_action" /\ phase = "CardSelection"
    /\ Len(available_cards) >= 3
    /\ target_enemy = Some(0) /\ CurrentTarget = Some(1)
    /\ ret.action = [ tag |-> "TargetEnemy", enemy_idx |-> 1 ]

\* C2 as stated: whenever decide_action returns SelectCards, the index list
\* has exactly 3 entries and every NP entry (5 + the index of a servant
\* chosen by decide_np_usage) comes before every regular card slot
C2_ThreeEntriesNpFirst ==
    (ret.op = "decide_action" /\ ret.action.tag = "SelectCards")
        => LET card_indices == ret.action.card_indices
               is_np(entry) == \E i \in 1..Len(CurrentNpDecisions) :
                                   entry = 5 + CurrentNpDecisions[i]
           IN  /\ Len(card_indices) = 3
               /\ \A i, j \in 1..Len(card_indices) :
                      (i < j /\ is_np(card_indices[j])) => is_np(card_indices[i])

\* C4: outside CommandPhase and CardSelection the action is a function of the
\* phase and the settings alone: Wait of 500 ms in PreBattle and Unknown, Wait
\* of timings.attack_wait in AttackPhase and EnemyPhase, None in Victory and
\* Defeat; in CommandPhase it is UseSkill or TapAttack; and every phase has an
\* outcome
C4_PhaseDeterminesAction ==
    ret.op = "decide_action"
        => CASE phase \in { "PreBattle", "Unknown" } ->
                    ret.action = [ tag |-> "Wait", duration_ms |-> 500 ]
             [] phase \in { "AttackPhase", "EnemyPhase" } ->
                    ret.action = [ tag |-> "Wait",
                                   duration_ms |-> settings.timings.attack_wait ]
             [] phase \in { "Victory", "Defeat" } ->
                    ret.action = [ tag |-> "None" ]
             [] phase = "CommandPhase" ->
                    ret.action.tag \in { "UseSkill", "TapAttack" }
             [] phase = "CardSelection" ->
                    ret.action.tag \in { "TargetEnemy", "SelectCards", "Wait", "Panic" }

\* The attack wait is returned with servants, enemies and cards present
C4_Witness ==
    /\ ret.op = "decide_action" /\ phase = "EnemyPhase"
    /\ servants # << >> /\ available_cards # << >> /\ current_wave.enemies # << >>
    /\ settings.timings.attack_wait = 1500
    /\ ret.action = [ tag |-> "Wait", duration_ms |-> 1500 ]

-----------------------------------------------------------------------------

(* Chains: Chain::new over the hands recognition can deliver *)

\* The number of cards in a chain; the chain specification draws every hand of
\* up to this size, and the deals of up to HandSize cards
ChainSize == 3

\* The largest owner index of a drawn card
MaxOwner == 1

\* Hands of up to n cards; the card in place i has position i - 1
Hands(n, types, owners) ==
    UNION { { [ i \in 1..m |-> CardNew(t[i], o[i], i - 1) ] :
                t \in [ 1..m -> types ], o \in [ 1..m -> owners ] } : m \in 0..n }

InitChain ==
    /\ phase = "CardSelection"
    /\ current_wave = EnemyWaveNew(1, 3)
    /\ total_waves = 3
    /\ servants = << >>
    /\ available_cards \in Hands(ChainSize, CardTypes, 0..MaxOwner) \cup DecideHands
    /\ selected_cards = << >>
    /\ np_available = << FALSE, FALSE, FALSE >>
    /\ target_enemy = None
    /\ master_skills = MasterSkillsDefault
    /\ settings = SettingsDefault
    /\ ret = NoReturn

\* A call of Chain::new on three distinct cards of the hand, in any order
ChainNewCall ==
    \E i \in 1..Len(available_cards), j \in 1..Len(available_cards),
       k \in 1..Len(available_cards) :
        /\ i # j /\ i # k /\ j # k
        /\ ret' = [ op |-> "chain_new",
                    chain |-> ChainNew(<< available_cards[i], available_cards[j],
                                          available_cards[k] >>) ]
        /\ Unchanged_state

\* A call of calculate_possible_chains on the hand
CalculatePossibleChains ==
    /\ ret' = [ op |-> "calculate_possible_chains",
                chains |-> calculate_possible_chains(available_cards) ]
    /\ Unchanged_state

NextChain == ChainNewCall \/ CalculatePossibleChains

SpecChain == InitChain /\ [][NextChain]_vars

\* The three cards of the chain that was built last
ChainCards == ret.chain.cards

SameType == \A i \in 1..3 : ChainCards[i].card_type = ChainCards[1].card_type

SameOwner == \A i \in 1..3 : ChainCards[i].servant_idx = ChainCards[1].servant_idx

\* C9 as stated: three cards of one type other than NP give the chain type of
\* that name, and a brave chain only when the three share their owner
C9_MatchingChainType ==
    (ret.op = "chain_new" /\ SameType /\ ChainCards[1].card_type # "NP")
        => /\ ret.chain.chain_type = ChainCards[1].card_type
           /\ (ret.chain.is_brave => SameOwner)

\* C9: three cards of one type among Buster, Arts and Quick give the chain type
\* of that name, three Unknown cards give the chain type None, and in both
\* cases the chain is brave only when the three cards share their owner
C9_ChainTypeOfSameType ==
    (ret.op = "chain_new" /\ SameType /\ ChainCards[1].card_type # "NP")
        => /\ ChainCards[1].card_type \in { "Buster", "Arts", "Quick" }
                => ret.chain.chain_type = ChainCards[1].card_type
           /\ ChainCards[1].card_type = "Unknown" => ret.chain.chain_type = "None"
           /\ (ret.chain.is_brave => SameOwner)

C9_Witness ==
    /\ ret.op = "chain_new" /\ SameType /\ ~SameOwner
    /\ ChainCards[1].card_type = "Arts"
    /\ ret.chain.chain_type = "Arts" /\ ~ret.chain.is_brave

\* C10: the chain is brave exactly when its three cards share their owner,
\* whatever their types; the chain type is the common type when the three
\* types are one of Buster, Arts, Quick and None otherwise, whatever the
\* owners; so three cards of one owner with three different types give the
\* chain type None and a brave chain
C10_BraveFromOwnersOnly ==
    ret.op = "chain_new"
        => /\ ret.chain.is_brave <=> SameOwner
           /\ ret.chain.chain_type =
                  (IF Cardinality({ ChainCards[i].card_type : i \in 1..3 }) = 1
                      /\ ChainCards[1].card_type \in { "Buster", "Arts", "Quick" }
                   THEN ChainCards[1].card_type ELSE "None")
           /\ (SameOwner /\ Cardinality({ ChainCards[i].card_type : i \in 1..3 }) = 3)
                  => (ret.chain.chain_type = "None" /\ ret.chain.is_brave)

C10_Witness ==
    /\ ret.op = "chain_new" /\ SameOwner
    /\ << ChainCards[1].card_type, ChainCards[2].card_type, ChainCards[3].card_type >>
           = << "Buster", "Arts", "Quick" >>
    /\ ret.chain.chain_type = "None" /\ ret.chain.is_brave

-----------------------------------------------------------------------------
(* Overcharge: NPTimingEngine::chain_overcharge in u32 arithmetic.  A u32 is *)
(* carried as two 16-bit halves << hi, lo >>, its value being                *)
(* hi * 65536 + lo.                                                          *)

\* The largest chain position the overcharge specification draws
MaxPosition == 3

\* base + small in u32 for small < 65536: the wrapped sum and whether the
\* addition overflowed
u32_add(base, small) ==
    LET lo == base[2] + small
        hi == base[1] + lo \div 65536
    IN  [ sum |-> << hi % 65536, lo % 65536 >>, overflow |-> hi >= 65536 ]

\* u32::min(self, 500)
u32_min_500(x) == IF x[1] = 0 /\ x[2] < 500 THEN x[2] ELSE 500

\* NPTimingEngine::chain_overcharge.  An overflowing addition panics in a
\* build with overflow checks (None) and wraps around in a build without.
chain_overcharge(base_overcharge, chain_position, overflow_checks) ==
    LET added == u32_add(base_overcharge, chain_position * 100)
    IN  IF added.overflow /\ overflow_checks THEN None
        ELSE Some(u32_min_500(added.sum))

\* The base overcharge values drawn: the levels of the game and the values
\* around the two ends of the u32 range
BaseOvercharges ==
    { << 0, lo >> : lo \in { 0, 100, 200, 300, 400, 500, 600, 65535 } }
    \cup { << hi, lo >> : hi \in { 1, 65535 }, lo \in { 0, 100, 65235, 65436, 65535 } }

InitOvercharge ==
    /\ phase = "Unknown"
    /\ current_wave = EnemyWaveNew(1, 3)
    /\ total_waves = 3
    /\ servants = << >>
    /\ available_cards = << >>
    /\ selected_cards = << >>
    /\ np_available = << FALSE, FALSE, FALSE >>
    /\ target_enemy = None
    /\ master_skills = MasterSkillsDefault
    /\ settings = SettingsDefault
    /\ ret = NoReturn

\* A call of chain_overcharge(base_overcharge, chain_position) in a build
\* with or without overflow checks
ChainOvercharge ==
    \E base_overcharge \in BaseOvercharges, chain_position \in 0..MaxPosition,
       overflow_checks \in BOOLEAN :
        /\ ret' = [ op |-> "chain_overcharge",
                    base_overcharge |-> base_overcharge,
                    chain_position |-> chain_position,
                    overflow_checks |-> overflow_checks,
                    result |-> chain_overcharge(base_overcharge, chain_position,
                                                overflow_checks) ]
        /\ Unchanged_state

NextOvercharge == ChainOvercharge

SpecOvercharge == InitOvercharge /\ [][NextOvercharge]_vars

\* min(base + 100 * position, 500) over the naturals
CappedSum(base_overcharge, chain_position) ==
    IF base_overcharge[1] > 0 \/ base_overcharge[2] + 100 * chain_position >= 500
    THEN 500 ELSE base_overcharge[2] + 100 * chain_position

\* C11: chain_overcharge(base, position) returns min(base + 100 * position,
\* 500) for every base and position, so it never exceeds 500, and it does not
\* decrease when the position grows
C11_OverchargeCapped ==
    ret.op = "chain_overcharge"
        => /\ ret.result = Some(CappedSum(ret.base_overcharge, ret.chain_position))
           /\ \A earlier \in 0..ret.chain_position :
                  LET before == chain_overcharge(ret.base_overcharge, earlier,
                                                 ret.overflow_checks)
                  IN  IsSome(before) /\ Unwrap(before) <= Unwrap(ret.result)

\* C11 within the u32 range: when base + 100 * position is at most u32::MAX
\* the call returns min(base + 100 * position, 500)
C11_OverchargeCappedInRange ==
    (ret.op = "chain_overcharge"
     /\ ~u32_add(ret.base_overcharge, ret.chain_position * 100).overflow)
        => ret.result = Some(CappedSum(ret.base_overcharge, ret.chain_position))

C11_Witness ==
    /\ ret.op = "chain_overcharge"
    /\ ret.base_overcharge = << 0, 300 >> /\ ret.chain_position = 2
    /\ ret.result = Some(500)

-----------------------------------------------------------------------------
(* Selection: CardSelector::select_cards over drawn hands *)

\* Front lines: none, a Saber, a Saber with a buffed Archer
SelectServants ==
    { << >>, << ServantNew("Saber") >>,
      << ServantNew("Saber"), [ ServantNew("Archer") EXCEPT !.buff_count = 1 ] >> }

\* Waves: no enemy, and a Lancer (a Saber has the advantage) with a Saber (an
\* Archer has the advantage)
SelectWaves ==
    { [ EnemyWaveNew(1, 3) EXCEPT !.enemies = enemies ] :
        enemies \in { << >>,
                      << EnemyOf("Lancer", 80, 0, TRUE), EnemyOf("Saber", 50, 1, TRUE) >> } }

\* Card priorities: the default and two that put Arts and Quick first
SelectPriorities ==
    { [ first_choice |-> "Buster", second_choice |-> "Arts", third_choice |-> "Quick" ],
      [ first_choice |-> "Arts", second_choice |-> "Buster", third_choice |-> "Quick" ],
      [ first_choice |-> "Quick", second_choice |-> "Arts", third_choice |-> "Buster" ] }

InitSelect ==
    /\ phase = "CardSelection"
    /\ total_waves = 3
    /\ current_wave \in SelectWaves
    /\ servants \in SelectServants
    /\ available_cards \in
           Hands(ChainSize, { "Buster", "Arts", "Quick" }, 0..1) \cup DecideHands
    /\ selected_cards = << >>
    /\ np_available = << FALSE, FALSE, FALSE >>
    /\ target_enemy = None
    /\ master_skills = MasterSkillsDefault
    /\ \E card_priority \in SelectPriorities, adv \in BOOLEAN :
           settings = [ SettingsDefault EXCEPT !.card_priority = card_priority,
                                               !.prioritize_class_advantage = adv ]
    /\ ret = NoReturn

\* A call of CardSelector::select_cards(&state.available_cards, &state.servants,
\* &state.current_wave, np_decisions, settings)
SelectCardsCall ==
    \E np_decisions \in { << >>, << 1 >> } :
        /\ ret' = [ op |-> "select_cards", np_decisions |-> np_decisions,
                    cards |-> select_cards(available_cards, servants, current_wave,
                                           np_decisions, settings) ]
        /\ Unchanged_state

NextSelect == SelectCardsCall

SpecSelect == InitSelect /\ [][NextSelect]_vars

\* The individual score of a card in the current state
IndividualScore(card) == score_individual_card(card, servants, current_wave, settings)

\* C12: with fewer than 3 available cards no chain is built and select_cards
\* returns every available card once, at most 3 cards, ordered by descending
\* individual score with cards of equal score in their original order; with
\* no available card it returns the empty list
C12_FallbackRanking ==
    (ret.op = "select_cards" /\ Len(available_cards) < 3)
        => /\ calculate_possible_chains(available_cards) = << >>
           /\ Len(ret.cards) = Len(available_cards) /\ Len(ret.cards) <= 3
           /\ Range(ret.cards) = Range(available_cards)
           /\ \A i, j \in 1..Len(ret.cards) :
                  i < j => \/ IndividualScore(ret.cards[i]) > IndividualScore(ret.cards[j])
                           \/ /\ IndividualScore(ret.cards[i]) = IndividualScore(ret.cards[j])
                              /\ ret.cards[i].position < ret.cards[j].position
           /\ available_cards = << >> => ret.cards = << >>

\* The chains of the hand in enumeration order, and their scores
HandChains == calculate_possible_chains(available_cards)

HandChainScores ==
    [ i \in 1..Len(HandChains) |->
        score_chain(HandChains[i], servants, current_wave, ret.np_decisions, settings) ]

\* C17: with 3 or more available cards select_cards returns a chain of the
\* enumeration whose score no chain exceeds, and every chain before it in
\* enumeration order has a strictly smaller score: of chains with equal
\* maximal score the first is returned
C17_FirstBestChain ==
    (ret.op = "select_cards" /\ Len(available_cards) >= 3)
        => \E chains \in { HandChains } : \E scores \in { HandChainScores } :
               \E i \in 1..Len(chains) :
                   /\ chains[i].cards = ret.cards
                   /\ \A j \in 1..Len(chains) :
                          /\ ~BigLess(scores[i], scores[j])
                          /\ j < i => BigLess(scores[j], scores[i])

\* The returned chain is not the first of the enumeration and a later chain
\* has the same score
C17_Witness ==
    /\ ret.op = "select_cards" /\ Len(available_cards) >= 3
    /\ \E chains \in { HandChains } : \E scores \in { HandChainScores } :
           \E i \in 2..Len(chains) :
               /\ chains[i].cards = ret.cards
               /\ \E j \in (i + 1)..Len(chains) : scores[j] = scores[i]

\* Two cards are returned in the reverse of their original order
C12_Witness ==
    /\ ret.op = "select_cards" /\ Len(available_cards) = 2
    /\ ret.cards = << available_cards[2], available_cards[1] >>
    /\ IndividualScore(available_cards[2]) > IndividualScore(available_cards[1])

-----------------------------------------------------------------------------
(* android/bridge.rs: the 64-bit action code.  A jlong is carried as its 8   *)
(* bytes, least significant first; the parameters drawn are below 2^31.      *)

\* a | b on n-bit values
RECURSIVE BitOr(_, _, _)
BitOr(a, b, n) ==
    IF n = 0 THEN 0
    ELSE (IF a % 2 = 1 \/ b % 2 = 1 THEN 1 ELSE 0) + 2 * BitOr(a \div 2, b \div 2, n - 1)

\* (v as i64) << (8 * shift) for 0 <= v < 2^31
ShiftLeft(v, shift) ==
    [ i \in 1..8 |-> IF i - 1 >= shift /\ i - 1 - shift <= 3
                     THEN (v \div Pow(256, i - 1 - shift)) % 256 ELSE 0 ]

\* a | b on jlong values
Or64(a, b) == [ i \in 1..8 |-> BitOr(a[i], b[i], 8) ]

\* v as i64 & 0xFFFFFF for an i32 v
Mask24(v) == v % 16777216

\* Option<usize>::unwrap_or(255)
unwrap_or_255(o) == IF IsSome(o) THEN Unwrap(o) ELSE 255

\* card_indices.get(i).copied().unwrap_or(0)
get_or_0(s, i) == IF i < Len(s) THEN s[i + 1] ELSE 0

\* encode_action
encode_action(action) ==
    CASE action.tag = "None" -> ShiftLeft(0, 0)
      [] action.tag = "Tap" ->
             Or64(Or64(ShiftLeft(1, 7), ShiftLeft(Mask24(action.x), 4)),
                  ShiftLeft(Mask24(action.y), 1))
      [] action.tag = "Swipe" ->
             Or64(Or64(ShiftLeft(2, 7), ShiftLeft(Mask24(action.start_x), 4)),
                  ShiftLeft(Mask24(action.start_y), 1))
      [] action.tag = "Wait" -> Or64(ShiftLeft(3, 7), ShiftLeft(action.duration_ms, 0))
      [] action.tag = "SelectCards" ->
             Or64(Or64(Or64(ShiftLeft(4, 7),
                            ShiftLeft(get_or_0(action.card_indices, 0), 2)),
                       ShiftLeft(get_or_0(action.card_indices, 1), 1)),
                  ShiftLeft(get_or_0(action.card_indices, 2), 0))
      [] action.tag = "UseSkill" ->
             Or64(Or64(Or64(ShiftLeft(5, 7), ShiftLeft(action.servant_idx, 2)),
                       ShiftLeft(action.skill_idx, 1)),
                  ShiftLeft(unwrap_or_255(action.target), 0))
      [] action.tag = "UseNP" -> Or64(ShiftLeft(6, 7), ShiftLeft(action.servant_idx, 0))
      [] action.tag = "TargetEnemy" -> Or64(ShiftLeft(7, 7), ShiftLeft(action.enemy_idx, 0))
      [] action.tag = "TapAttack" -> ShiftLeft(8, 7)
      [] action.tag = "UseMasterSkill" ->
             Or64(Or64(ShiftLeft(9, 7), ShiftLeft(action.skill_idx, 1)),
                  ShiftLeft(unwrap_or_255(action.target), 0))

\* Java_io_sheba_ShebaCore_getActionType: (action_code >> 56) & 0xFF
getActionType(action_code) == action_code[8]

\* Java_io_sheba_ShebaCore_getActionX: (action_code >> 32) & 0xFFFFFF
getActionX(action_code) == action_code[5] + 256 * action_code[6] + 65536 * action_code[7]

\* Java_io_sheba_ShebaCore_getActionY: (action_code >> 8) & 0xFFFFFF
getActionY(action_code) == action_code[2] + 256 * action_code[3] + 65536 * action_code[4]

\* Java_io_sheba_ShebaCore_getActionData: action_code & 0xFF
getActionData(action_code) == action_code[1]

\* action_types
ActionTypeOf(tag) ==
    CASE tag = "None" -> 0 [] tag = "Tap" -> 1 [] tag = "Swipe" -> 2 [] tag = "Wait" -> 3
      [] tag = "SelectCards" -> 4 [] tag = "UseSkill" -> 5 [] tag = "UseNP" -> 6
      [] tag = "TargetEnemy" -> 7 [] tag = "TapAttack" -> 8 [] tag = "UseMasterSkill" -> 9

\* The largest servant, skill and enemy index of the actions drawn
MaxIndex == 2

\* The actions drawn: every variant, with screen coordinates, the waits of
\* decide_action, index lists of up to 3 entries and every index up to MaxIndex
ShebaActions ==
    { [ tag |-> "None" ], [ tag |-> "TapAttack" ] }
    \cup { [ tag |-> "Tap", x |-> x, y |-> y ] : x \in { 0, 540, 1919, -1 }, y \in { 0, 500, 1079, -1 } }
    \cup { [ tag |-> "Swipe", start_x |-> 100, start_y |-> y, end_x |-> ex, end_y |-> 300,
             duration_ms |-> ms ] : y \in { 200, 500, 900 }, ex \in { 100, 500, 800 }, ms \in { 100, 300 } }
    \cup { [ tag |-> "Wait", duration_ms |-> ms ] : ms \in { 0, 200, 500, 1500, 3000 } }
    \cup { [ tag |-> "SelectCards", card_indices |-> ci ] :
             ci \in { << 0 >>, << 0, 0, 0 >>, << 0, 1, 2 >>, << 5, 0, 1 >>, << 2, 1 >>,
                      << 5, 6, 7 >> } }
    \cup { [ tag |-> "UseSkill", servant_idx |-> sv, skill_idx |-> sk, target |-> t ] :
             sv \in 0..MaxIndex, sk \in 0..MaxIndex,
             t \in { None } \cup { Some(i) : i \in 0..MaxIndex } }
    \cup { [ tag |-> "UseNP", servant_idx |-> sv ] : sv \in 0..MaxIndex }
    \cup { [ tag |-> "TargetEnemy", enemy_idx |-> e ] : e \in 0..MaxIndex }
    \cup { [ tag |-> "UseMasterSkill", skill_idx |-> sk, target |-> t ] :
             sk \in 0..MaxIndex, t \in { None } \cup { Some(i) : i \in 0..MaxIndex } }

\* processFrame encoding the action that process_battle decided
EncodeAction ==
    \E action \in ShebaActions :
        /\ ret' = [ op |-> "encode_action", action |-> action,
                    action_code |-> encode_action(action) ]
        /\ Unchanged_state

NextEncode == EncodeAction

SpecEncode == InitOvercharge /\ [][NextEncode]_vars

\* C13: the tag and every parameter of an action are recovered from its code:
\* no other action of any variant has the same code, and the action-type
\* field is the type of the tag
C13_EncodeRoundTrip ==
    ret.op = "encode_action"
        => /\ getActionType(ret.action_code) = ActionTypeOf(ret.action.tag)
           /\ \A other \in ShebaActions :
                  encode_action(other) = ret.action_code => other = ret.action

\* C13 for the action type alone: the action-type field of the code is the
\* type of the action's tag
C13_TagRecovered ==
    ret.op = "encode_action"
        => getActionType(ret.action_code) = ActionTypeOf(ret.action.tag)

C13_Witness ==
    /\ ret.op = "encode_action" /\ ret.action.tag = "UseSkill"
    /\ ret.action.servant_idx = 2 /\ ret.action.target = None
    /\ getActionType(ret.action_code) = 5 /\ getActionData(ret.action_code) = 255
    /\ getActionY(ret.action_code) = 2 * 256 + ret.action.skill_idx
    /\ getActionX(ret.action_code) = 0

-----------------------------------------------------------------------------
(* game/battle.rs: the turn operations of BattleState *)

\* tick_cooldown lowering a cooldown by 2
tick_cooldown_by_two(skill) ==
    IF skill.cooldown > 1 THEN [ skill EXCEPT !.cooldown = @ - 2 ]
    ELSE [ skill EXCEPT !.cooldown = 0 ]

\* Skill::tick_cooldown
tick_cooldown(skill) ==
    IF skill.cooldown > 0 THEN [ skill EXCEPT !.cooldown = @ - 1 ] ELSE skill

\* Servant::tick_cooldowns
servant_tick_cooldowns(servant) ==
    [ servant EXCEPT !.skills = [ i \in 1..Len(servant.skills) |->
                                    tick_cooldown(servant.skills[i]) ] ]

\* MasterSkills::tick_cooldowns
master_tick_cooldowns(ms) ==
    [ ms EXCEPT !.cooldowns = [ i \in 1..3 |-> IF ms.cooldowns[i] > 0
                                               THEN ms.cooldowns[i] - 1
                                               ELSE ms.cooldowns[i] ] ]

\* BattleState::start_turn
StartTurn ==
    /\ phase' = "CommandPhase"
    /\ selected_cards' = << >>
    /\ servants' = [ i \in 1..Len(servants) |-> servant_tick_cooldowns(servants[i]) ]
    /\ master_skills' = master_tick_cooldowns(master_skills)
    /\ ret' = [ op |-> "start_turn" ]
    /\ UNCHANGED << current_wave, total_waves, available_cards, np_available,
                    target_enemy, settings >>

\* The hands recognition delivers to enter_card_selection
TurnHands ==
    { SubSeq(<< CardNew("Buster", 0, 0), CardNew("Arts", 0, 1), CardNew("Quick", 1, 2),
                CardNew("Buster", 1, 3), CardNew("Arts", 2, 4) >>, 1, n) : n \in { 0, 2, HandSize } }

\* BattleState::enter_card_selection(cards)
EnterCardSelection ==
    \E cards \in TurnHands :
        /\ phase' = "CardSelection"
        /\ available_cards' = cards
        /\ selected_cards' = << >>
        /\ np_available' = [ i \in 1..3 |-> IF i <= Len(servants) THEN can_np(servants[i])
                                            ELSE np_available[i] ]
        /\ ret' = [ op |-> "enter_card_selection" ]
        /\ UNCHANGED << current_wave, total_waves, servants, target_enemy,
                        master_skills, settings >>

\* select_card pushing without the limit of 3
select_card_state_unlimited(selected, card) ==
    [ selected |-> Append(selected, card), result |-> TRUE ]

\* BattleState::select_card: the selected cards after the call and its result
select_card_state(selected, card) ==
    IF Len(selected) < 3
    THEN [ selected |-> Append(selected, card), result |-> TRUE ]
    ELSE [ selected |-> selected, result |-> FALSE ]

\* BattleState::select_card(card), for a card of the hand
SelectCard ==
    \E i \in 1..Len(available_cards) :
        LET after == select_card_state(selected_cards, available_cards[i]) IN
        /\ selected_cards' = after.selected
        /\ ret' = [ op |-> "select_card", card |-> available_cards[i],
                    result |-> after.result ]
        /\ UNCHANGED << phase, current_wave, total_waves, servants, available_cards,
                        np_available, target_enemy, master_skills, settings >>

\* The largest servant index passed to select_np
MaxNpIndex == 3

\* select_np leaving the NP flag of the servant set
select_np_state_keeps_flag(selected, np_avail, servant_idx) ==
    IF servant_idx < 3 /\ np_avail[servant_idx + 1] /\ Len(selected) < 3
    THEN [ selected |-> Append(selected, CardNew("NP", servant_idx, 5 + servant_idx)),
           np_avail |-> np_avail,
           result |-> TRUE ]
    ELSE [ selected |-> selected, np_avail |-> np_avail, result |-> FALSE ]

\* BattleState::select_np: the selected cards and NP flags after the call and
\* its result
select_np_state(selected, np_avail, servant_idx) ==
    IF servant_idx < 3 /\ np_avail[servant_idx + 1] /\ Len(selected) < 3
    THEN [ selected |-> Append(selected, CardNew("NP", servant_idx, 5 + servant_idx)),
           np_avail |-> [ np_avail EXCEPT ![servant_idx + 1] = FALSE ],
           result |-> TRUE ]
    ELSE [ selected |-> selected, np_avail |-> np_avail, result |-> FALSE ]

\* BattleState::select_np(servant_idx)
SelectNp ==
    \E servant_idx \in 0..MaxNpIndex :
        LET after == select_np_state(selected_cards, np_available, servant_idx) IN
        /\ selected_cards' = after.selected
        /\ np_available' = after.np_avail
        /\ ret' = [ op |-> "select_np", servant_idx |-> servant_idx,
                    result |-> after.result ]
        /\ UNCHANGED << phase, current_wave, total_waves, servants, available_cards,
                        target_enemy, master_skills, settings >>

\* Front lines of the turn specification: empty, two servants of which one has
\* a full gauge and skills on cooldown, four servants with full gauges
TurnServants ==
    { << >>,
      << [ ServantNew("Saber") EXCEPT !.np_gauge = 100,
             !.skills = WithCooldowns(<< SkillDefault, SkillDefault, SkillDefault >>,
                                      << 2, 0, 1 >>) ],
         ServantNew("Archer") >>,
      [ i \in 1..4 |-> [ ServantNew("Saber") EXCEPT !.np_gauge = 100 ] ] }

InitTurn ==
    /\ phase = "Unknown"
    /\ current_wave = EnemyWaveNew(1, 3)
    /\ total_waves = 3
    /\ servants \in TurnServants
    /\ available_cards = << >>
    /\ selected_cards = << >>
    /\ np_available = << FALSE, FALSE, FALSE >>
    /\ target_enemy = None
    /\ master_skills \in { MasterSkillsDefault,
                           [ MasterSkillsDefault EXCEPT !.cooldowns = << 1, 0, 2 >> ] }
    /\ settings = SettingsDefault
    /\ ret = NoReturn

NextTurn == StartTurn \/ EnterCardSelection \/ SelectCard \/ SelectNp

SpecTurn == InitTurn /\ [][NextTurn]_vars

\* C14: after any sequence of start_turn, enter_card_selection, select_card
\* and select_np calls at most 3 cards are selected and np_available has 3
\* slots, and a select_card or select_np call made while 3 cards are selected
\* returns false and changes nothing
C14_SelectionBounded ==
    /\ [](Len(selected_cards) <= 3 /\ Len(np_available) = 3)
    /\ [][(ret'.op \in { "select_card", "select_np" } /\ Len(selected_cards) >= 3)
              => /\ ret'.result = FALSE
                 /\ UNCHANGED << phase, current_wave, total_waves, servants,
                                 available_cards, selected_cards, np_available,
                                 target_enemy, master_skills, settings >>]_vars

\* A fourth selection was refused with NPs and cards selected
C14_Witness ==
    /\ ret.op \in { "select_card", "select_np" } /\ ret.result = FALSE
    /\ Len(selected_cards) = 3
    /\ selected_cards[1].card_type = "NP" /\ selected_cards[3].card_type # "NP"
    /\ \E i \in 1..3 : np_available[i]

-----------------------------------------------------------------------------
(* Undefined scores: enemies whose hp_percent is NaN *)

\* Enemy slots with an HP that is a number or NaN
NanSlots ==
    { EnemyOf("Lancer", hp, 0, alive) : hp \in { NaN, 20, 80 }, alive \in BOOLEAN }

InitNan ==
    /\ phase = "CardSelection"
    /\ total_waves = 3
    /\ \E enemies \in UNION { [ 1..n -> NanSlots ] : n \in 1..EnemySlots } :
           current_wave = [ EnemyWaveNew(1, 3) EXCEPT !.enemies =
                              [ i \in 1..Len(enemies) |->
                                  [ enemies[i] EXCEPT !.position = i - 1 ] ] ]
    /\ servants \in { << >>, << [ ServantNew("Saber") EXCEPT !.np_gauge = 100 ] >> }
    /\ available_cards \in { << >>, << CardNew("Buster", 0, 0), CardNew("Arts", 0, 1) >> }
    /\ selected_cards = << >>
    /\ np_available \in { << FALSE, FALSE, FALSE >>, << TRUE, TRUE, TRUE >> }
    /\ target_enemy = None
    /\ master_skills = MasterSkillsDefault
    /\ settings = SettingsDefault
    /\ ret = NoReturn

\* A call of NPTimingEngine::decide_np_usage(state, settings)
DecideNpUsage ==
    /\ ret' = [ op |-> "decide_np_usage",
                panic |-> np_usage_panics(servants),
                np_users |-> IF np_usage_panics(servants) THEN << >>
                             ELSE decide_np_usage(servants, current_wave, np_available,
                                                  settings) ]
    /\ Unchanged_state

NextNan == Prioritize \/ DecideNpUsage \/ SelectCardsCall \/ RecommendSkills

SpecNan == InitNan /\ [][NextNan]_vars

\* The alive enemies whose score is a number
NumberedAlive ==
    { i \in 1..alive_count(current_wave) : ~score_is_nan(alive_enemies(current_wave)[i]) }

\* C15: with an enemy whose score is NaN among 2 or more ranked enemies,
\* prioritize still returns, and it returns an enemy whose score is a number
\* when there is one: the NaN ranks lowest
C15_NanRanksLowest ==
    (ret.op = "prioritize" /\ alive_count(current_wave) >= 2)
        => /\ ~ret.panic
           /\ NumberedAlive # { }
                  => \E i \in NumberedAlive :
                         ret.target = Some(alive_enemies(current_wave)[i].position)

\* C15 for the three rankings whose scores are computed from integers and
\* class constants and are never NaN: decide_np_usage, select_cards and
\* recommend_skills return with an enemy HP that is NaN
C15_OtherRankingsReturn ==
    /\ ret.op = "decide_np_usage" => ~ret.panic
    /\ ret.op = "select_cards" => Len(ret.cards) = Len(available_cards)
    /\ ret.op = "recommend_skills" => Len(ret.recommendations) <= 1

C15_Witness ==
    /\ ret.op = "prioritize" /\ ret.panic
    /\ alive_count(current_wave) = 3
    /\ NumberedAlive # { }

-----------------------------------------------------------------------------
(* Indices beyond the front line, the NP slots and the skill slots *)

\* Skill::use_skill
skill_use_skill(skill) == [ skill EXCEPT !.cooldown = skill.max_cooldown ]

\* BattleState::use_servant_skill: the servants after the call
use_servant_skill(svs, servant_idx, skill_idx) ==
    IF servant_idx < Len(svs)
    THEN IF skill_idx < 3
         THEN [ svs EXCEPT ![servant_idx + 1].skills[skill_idx + 1] =
                               skill_use_skill(svs[servant_idx + 1].skills[skill_idx + 1]) ]
         ELSE svs
    ELSE svs

\* MasterSkills::use_skill
master_use_skill(ms, skill_idx, cooldown) ==
    IF skill_idx < 3 THEN [ ms EXCEPT !.cooldowns[skill_idx + 1] = cooldown ]
    ELSE ms

\* A call of BattleState::use_servant_skill(servant_idx, skill_idx)
UseServantSkill ==
    \E servant_idx \in { 0, MaxNpIndex, MaxNpIndex + 1 }, skill_idx \in { 0, MaxNpIndex } :
        /\ servants' = use_servant_skill(servants, servant_idx, skill_idx)
        /\ ret' = [ op |-> "use_servant_skill", servant_idx |-> servant_idx,
                    skill_idx |-> skill_idx ]
        /\ UNCHANGED << phase, current_wave, total_waves, available_cards, selected_cards,
                        np_available, target_enemy, master_skills, settings >>

\* A call of MasterSkills::use_skill(skill_idx, cooldown) on state.master_skills
MasterUseSkill ==
    \E skill_idx \in { 0, MaxNpIndex } :
        /\ master_skills' = master_use_skill(master_skills, skill_idx, 15)
        /\ ret' = [ op |-> "master_use_skill", skill_idx |-> skill_idx ]
        /\ UNCHANGED << phase, current_wave, total_waves, servants, available_cards,
                        selected_cards, np_available, target_enemy, settings >>

\* A call of MasterSkills::is_ready(skill_idx) on state.master_skills
MasterIsReady ==
    \E skill_idx \in 0..MaxNpIndex :
        /\ ret' = [ op |-> "master_is_ready", skill_idx |-> skill_idx,
                    result |-> master_is_ready(master_skills, skill_idx) ]
        /\ Unchanged_state

\* Front lines: none, two servants, four servants of whom the fourth has an
\* empty gauge, four servants with full gauges
BoundServants ==
    { << >>,
      << [ ServantNew("Saber") EXCEPT !.np_gauge = 100 ], ServantNew("Archer") >>,
      [ i \in 1..4 |-> [ ServantNew("Saber") EXCEPT !.np_gauge = IF i = 4 THEN 0 ELSE 100 ] ],
      [ i \in 1..4 |-> [ ServantNew("Saber") EXCEPT !.np_gauge = 100 ] ] }

\* Hands: none, a mixed deal, and three cards of a servant index beyond every
\* front line
BoundHands ==
    { << >>,
      << CardNew("Buster", 0, 0), CardNew("Arts", 0, 1), CardNew("Quick", 0, 2),
         CardNew("Buster", 1, 3), CardNew("Arts", 1, 4) >>,
      [ i \in 1..3 |-> CardNew("Arts", 7, i - 1) ] }

InitBound ==
    /\ phase \in { "CommandPhase", "CardSelection" }
    /\ current_wave = EnemyWaveNew(1, 3)
    /\ total_waves = 3
    /\ servants \in BoundServants
    /\ available_cards \in BoundHands
    /\ selected_cards = << >>
    /\ np_available \in { << FALSE, FALSE, FALSE >>, << TRUE, FALSE, TRUE >> }
    /\ target_enemy = None
    /\ master_skills = MasterSkillsDefault
    /\ settings = SettingsDefault
    /\ ret = NoReturn

NextBound ==
    \/ DecideNpUsage
    \/ DecideAction
    \/ UseServantSkill
    \/ SelectNp
    \/ MasterUseSkill
    \/ MasterIsReady

SpecBound == InitBound /\ [][NextBound]_vars

\* C16: no snapshot makes decide_np_usage or decide_action read np_available
\* outside its slots 0..2: neither call ends in an index panic
C16_NoInvalidAccess ==
    /\ ret.op = "decide_np_usage" => ~ret.panic
    /\ ret.op = "decide_action" => ret.action.tag # "Panic"

\* C16 for the four operations that take an index: with a servant index beyond
\* the front line or the NP slots, or a skill index beyond the three skills,
\* use_servant_skill, select_np and MasterSkills::use_skill leave the snapshot
\* as it was, and select_np and is_ready answer false
C16_OutOfRangeIgnored ==
    [][ /\ ( /\ ret'.op = "use_servant_skill"
             /\ (ret'.servant_idx >= Len(servants) \/ ret'.skill_idx >= 3) )
            => Unchanged_state
        /\ (ret'.op = "select_np" /\ ret'.servant_idx >= 3)
            => (ret'.result = FALSE /\ Unchanged_state)
        /\ (ret'.op = "master_use_skill" /\ ret'.skill_idx >= 3)
            => Unchanged_state
        /\ (ret'.op = "master_is_ready" /\ ret'.skill_idx >= 3)
            => (ret'.result = FALSE /\ Unchanged_state) ]_vars

\* A fourth servant with a full gauge makes decide_np_usage read
\* np_available[3]
C16_Witness ==
    /\ ret.op = "decide_np_usage" /\ ret.panic
    /\ Len(servants) = 4
    /\ master_skills.cooldowns # << 0, 0, 0 >>

-----------------------------------------------------------------------------
(* The enumeration of calculate_possible_chains *)

\* The ordered triples of pairwise-distinct places of the hand
DistinctTriples ==
    { t \in (1..Len(available_cards)) \X (1..Len(available_cards)) \X (1..Len(available_cards)) :
        t[1] # t[2] /\ t[1] # t[3] /\ t[2] # t[3] }

\* C18: over n cards calculate_possible_chains returns n(n-1)(n-2) chains: each
\* ordered triple of pairwise-distinct places of the hand is the card list of
\* exactly one of them, 60 chains for 5 cards and 6 for 3, and no chain when
\* n < 3
C18_EveryOrderedTriple ==
    ret.op = "calculate_possible_chains"
        => \E n \in { Len(available_cards) } :
             /\ Len(ret.chains) = IF n < 3 THEN 0 ELSE n * (n - 1) * (n - 2)
             /\ n = 5 => Len(ret.chains) = 60
             /\ n = 3 => Len(ret.chains) = 6
             /\ \A t \in DistinctTriples :
                    Cardinality({ c \in 1..Len(ret.chains) :
                                    ret.chains[c].cards = << available_cards[t[1]],
                                                             available_cards[t[2]],
                                                             available_cards[t[3]] >> }) = 1

\* The 60 chains of a deal of 5 cards
C18_Witness ==
    /\ ret.op = "calculate_possible_chains"
    /\ Len(available_cards) = 5
    /\ Len(ret.chains) = 60
    /\ ret.chains[60].cards = << available_cards[5], available_cards[4], available_cards[3] >>

-----------------------------------------------------------------------------
(* The NP users of a turn *)

\* enum NPType
NPTypes == { "Buster", "Arts", "Quick" }

\* Servants of the NP specification: every NP type with a gauge of 100 or 200
\* and with or without a buff, a servant with an empty gauge and a dead one
\* with a full gauge
NpServants ==
    { [ ServantNew("Saber") EXCEPT !.np_type = t, !.np_gauge = g, !.buff_count = b ] :
        t \in NPTypes, g \in { 100, 200 }, b \in { 0, 1 } }
    \cup { ServantNew("Saber"),
           [ ServantNew("Saber") EXCEPT !.np_gauge = 100, !.np_type = "Arts",
                                        !.is_alive = FALSE ] }

\* Front lines of up to 3 servants, and two of 4 servants: the fourth with an
\* empty gauge, and the fourth with a full one
NpFrontLines ==
    UNION { [ 1..n -> NpServants ] : n \in 0..3 }
    \cup { [ i \in 1..4 |-> [ ServantNew("Saber") EXCEPT !.np_gauge = IF i = 4 THEN g ELSE 100 ] ] :
             g \in { 0, 100 } }

\* Waves: the last wave with one enemy, the first wave with two Lancers, the
\* first wave with one Archer
NpWaves ==
    { [ EnemyWaveNew(3, 3) EXCEPT !.enemies = << EnemyOf("Archer", 100, 0, TRUE) >> ],
      [ EnemyWaveNew(1, 3) EXCEPT !.enemies =
          << EnemyOf("Lancer", 100, 0, TRUE),
             [ EnemyOf("Lancer", 50, 0, TRUE) EXCEPT !.position = 1 ] >> ],
      [ EnemyWaveNew(1, 3) EXCEPT !.enemies = << EnemyOf("Archer", 100, 0, TRUE) >> ] }

InitNp ==
    /\ phase = "CardSelection"
    /\ total_waves = 3
    /\ current_wave \in NpWaves
    /\ servants \in NpFrontLines
    /\ available_cards = << >>
    /\ selected_cards = << >>
    /\ np_available \in { << TRUE, TRUE, TRUE >>, << TRUE, FALSE, TRUE >>,
                          << FALSE, FALSE, FALSE >> }
    /\ target_enemy = None
    /\ master_skills = MasterSkillsDefault
    /\ settings \in { SettingsDefault, [ SettingsDefault EXCEPT !.np_threshold = 200 ] }
    /\ ret = NoReturn

NextNp == DecideNpUsage

SpecNp == InitNp /\ [][NextNp]_vars

\* The score of the servant at index idx in the current state
NpScore(idx) == score_np_usage(servants[idx + 1], current_wave, settings)

\* C19: decide_np_usage returns at most 3 servant indices, pairwise distinct,
\* each of an alive servant with a gauge of 100 or more whose np_available
\* flag is set and whose score is above 0.5
C19_NpUsersEligible ==
    (ret.op = "decide_np_usage" /\ ~ret.panic)
        => /\ Len(ret.np_users) <= 3
           /\ \A i, j \in 1..Len(ret.np_users) : i # j => ret.np_users[i] # ret.np_users[j]
           /\ \A i \in 1..Len(ret.np_users) :
                  \E idx \in { ret.np_users[i] } :
                      /\ idx \in 0..(Len(servants) - 1) /\ idx < 3
                      /\ servants[idx + 1].is_alive
                      /\ servants[idx + 1].np_gauge >= 100
                      /\ np_available[idx + 1]
                      /\ NpScore(idx) > 5000

\* Servant 0 can use its NP, its flag is set and its score is not above 0.5:
\* it is left out while two others are returned
C19_Witness ==
    /\ ret.op = "decide_np_usage" /\ ~ret.panic
    /\ Len(servants) = 3
    /\ can_np(servants[1]) /\ np_available[1] /\ NpScore(0) <= 5000
    /\ ~Contains(ret.np_users, 0)
    /\ Len(ret.np_users) = 2

\* Arts before Quick before Buster
NpTypeRank(idx) ==
    CASE servants[idx + 1].np_type = "Arts" -> 0
      [] servants[idx + 1].np_type = "Quick" -> 1
      [] servants[idx + 1].np_type = "Buster" -> 2

\* C20: the list returned by decide_np_usage has the Arts NPs first, then the
\* Quick NPs, then the Buster NPs, and servants of one NP type in descending
\* order of score
C20_OrderedByNpType ==
    (ret.op = "decide_np_usage" /\ ~ret.panic)
        => \A i, j \in 1..Len(ret.np_users) :
               i < j => /\ NpTypeRank(ret.np_users[i]) <= NpTypeRank(ret.np_users[j])
                        /\ NpTypeRank(ret.np_users[i]) = NpTypeRank(ret.np_users[j])
                               => NpScore(ret.np_users[i]) >= NpScore(ret.np_users[j])

\* Two Arts NPs in descending score against their index order, before a Buster
\* NP whose score is the greatest of the three
C20_Witness ==
    /\ ret.op = "decide_np_usage" /\ ~ret.panic
    /\ ret.np_users = << 2, 1, 0 >>
    /\ servants[1].np_type = "Buster" /\ servants[2].np_type = "Arts"
    /\ servants[3].np_type = "Arts"
    /\ NpScore(0) > NpScore(2) /\ NpScore(2) > NpScore(1)

-----------------------------------------------------------------------------
(* A user-defined skill order: settings.skill_settings.skill_order *)

\* config::SkillCommand
SkillCommand(servant, skill, target, wave) ==
    [ servant |-> servant, skill |-> skill, target |-> target, wave |-> wave ]

\* SkillDecisionEngine::get_wave_skill_order; priority 10.0 in tenths
get_wave_skill_order(wave, s) ==
    IF IsSome(s.skill_settings.skill_order)
    THEN LET skill_order == Unwrap(s.skill_settings.skill_order)
             kept == SelectSeq(skill_order,
                               LAMBDA cmd : cmd.wave = Some(wave) \/ cmd.wave = None)
         IN  [ i \in 1..Len(kept) |->
                 [ servant_idx |-> kept[i].servant, skill_idx |-> kept[i].skill,
                   target |-> kept[i].target, priority |-> 100,
                   is_master_skill |-> FALSE ] ]
    ELSE << >>

\* Skill orders: none, an empty one, one with entries for waves 1 and 3 around
\* an entry for every wave, one with a single entry for wave 2
SkillOrders ==
    { None,
      Some(<< >>),
      Some(<< SkillCommand(2, 1, None, Some(1)), SkillCommand(0, 2, Some(1), None),
              SkillCommand(1, 2, None, Some(3)) >>),
      Some(<< SkillCommand(0, 1, None, Some(2)) >>) }

\* Servants of the skill order specification: a targeted charge ready below a
\* full gauge, the same on cooldown, and a full gauge with a buff ready
OrderServants ==
    { [ ServantNew("Saber") EXCEPT !.np_gauge = 80,
          !.skills = WithCooldowns(<< SkillOf(TRUE, 20, TRUE, FALSE), SkillDefault,
                                      SkillDefault >>, cds) ] :
        cds \in CooldownPatterns }
    \cup { [ ServantNew("Saber") EXCEPT !.np_gauge = 100,
               !.skills = << SkillDefault, SkillOf(FALSE, 0, FALSE, TRUE), SkillDefault >> ] }

InitOrder ==
    /\ phase = "CommandPhase"
    /\ total_waves = 3
    /\ \E wave_number \in 1..3 : current_wave = EnemyWaveNew(wave_number, 3)
    /\ servants \in FrontLines(MaxServants, OrderServants)
    /\ available_cards = << >>
    /\ selected_cards = << >>
    /\ np_available = << FALSE, FALSE, FALSE >>
    /\ target_enemy = None
    /\ master_skills \in { MasterSkillsDefault,
                           [ MasterSkillsDefault EXCEPT !.available = FALSE ] }
    /\ \E order \in SkillOrders :
           settings = [ SettingsDefault EXCEPT !.skill_settings.skill_order = order ]
    /\ ret = NoReturn

\* A call of SkillDecisionEngine::get_wave_skill_order for the current wave
GetWaveSkillOrder ==
    /\ ret' = [ op |-> "get_wave_skill_order",
                recommendations |->
                    get_wave_skill_order(current_wave.wave_number, settings) ]
    /\ Unchanged_state

NextOrder == GetWaveSkillOrder \/ RecommendSkills \/ DecideAction

SpecOrder == InitOrder /\ [][NextOrder]_vars

\* The user's entries for the current wave
WaveSkillOrder == get_wave_skill_order(current_wave.wave_number, settings)

\* C21: when the user's skill order has entries for the current wave,
\* recommend_skills returns exactly those entries, in the user's order and at
\* the user-defined priority, and decide_action in CommandPhase returns
\* UseSkill of the first of them
C21_UserOrderEmitted ==
    WaveSkillOrder # << >>
        => /\ ret.op = "recommend_skills" => ret.recommendations = WaveSkillOrder
           /\ ret.op = "decide_action"
                  => ret.action = [ tag |-> "UseSkill",
                                    servant_idx |-> WaveSkillOrder[1].servant_idx,
                                    skill_idx |-> WaveSkillOrder[1].skill_idx,
                                    target |-> WaveSkillOrder[1].target ]

\* C21 for get_wave_skill_order alone: it returns one recommendation per entry
\* of the user's order whose wave is the current wave or is not given, in the
\* user's order, each at priority 10.0, above every scored priority
C21_WaveOrderFiltered ==
    (ret.op = "get_wave_skill_order" /\ IsSome(settings.skill_settings.skill_order))
        => \E skill_order \in { Unwrap(settings.skill_settings.skill_order) } :
           \E kept \in { SelectSeq(skill_order,
                             LAMBDA cmd : cmd.wave \in { None,
                                                          Some(current_wave.wave_number) }) } :
               /\ Len(ret.recommendations) = Len(kept)
               /\ \A i \in 1..Len(kept) :
                      /\ ret.recommendations[i].servant_idx = kept[i].servant
                      /\ ret.recommendations[i].skill_idx = kept[i].skill
                      /\ ret.recommendations[i].target = kept[i].target
                      /\ ret.recommendations[i].priority = 100
                      /\ \A j \in 1..Len(CurrentRecommendations) :
                             CurrentRecommendations[j].priority < 100

\* The user's order has two entries for wave 1 and recommend_skills returns
\* the scored recommendations instead
C21_Witness ==
    /\ ret.op = "recommend_skills"
    /\ Len(WaveSkillOrder) = 2
    /\ ret.recommendations # << >>
    /\ ret.recommendations # WaveSkillOrder

-----------------------------------------------------------------------------
(* CardSelector::score_chain over the chains of drawn hands *)

\* A call of score_chain on a chain of three distinct cards of the hand
ScoreChain ==
    \E i \in 1..Len(available_cards), j \in 1..Len(available_cards),
       k \in 1..Len(available_cards), np_decisions \in { << >>, << 1 >> } :
        /\ i # j /\ i # k /\ j # k
        /\ \E chain \in { ChainNew(<< available_cards[i], available_cards[j],
                                      available_cards[k] >>) } :
               ret' = [ op |-> "score_chain", chain |-> chain,
                        np_decisions |-> np_decisions,
                        score |-> score_chain(chain, servants, current_wave,
                                              np_decisions, settings) ]
        /\ Unchanged_state

\* The snapshots of the selection specification with a hand of up to 3 cards
InitScore ==
    /\ InitSelect
    /\ Len(available_cards) <= ChainSize

NextScore == ScoreChain

SpecScore == InitScore /\ [][NextScore]_vars

\* The score of the scored chain with its first two cards exchanged
SwappedScore ==
    score_chain(ChainNew(<< ret.chain.cards[2], ret.chain.cards[1], ret.chain.cards[3] >>),
                servants, current_wave, ret.np_decisions, settings)

\* C22: the score of a chain carries the first-card factor 1.1 exactly when
\* the type of its first card is the configured first choice, for each first
\* choice: exchanging the first two cards of a chain, of which the first has
\* the first-choice type and the second has not, divides the score by 1.1, and
\* leaves it as it is when neither has the first-choice type
C22_FirstCardFactor ==
    (ret.op = "score_chain" /\ ret.chain.cards[2].card_type # settings.card_priority.first_choice)
        => IF ret.chain.cards[1].card_type = settings.card_priority.first_choice
           THEN BigMulCarry(ret.score, 10, 0) = BigMulCarry(SwappedScore, 11, 0)
           ELSE ret.score = SwappedScore

\* C22 as the code has it: the factor is applied for a Buster first card with
\* first choice Buster and for an Arts first card with first choice Arts, and
\* never with first choice Quick
C22_FirstCardFactorBusterArts ==
    (ret.op = "score_chain" /\ ret.chain.cards[2].card_type # settings.card_priority.first_choice)
        => IF /\ ret.chain.cards[1].card_type = settings.card_priority.first_choice
              /\ settings.card_priority.first_choice \in { "Buster", "Arts" }
           THEN BigMulCarry(ret.score, 10, 0) = BigMulCarry(SwappedScore, 11, 0)
           ELSE ret.score = SwappedScore

\* A Quick card leads a chain and Quick is the first choice
C22_Witness ==
    /\ ret.op = "score_chain"
    /\ settings.card_priority.first_choice = "Quick"
    /\ ret.chain.cards[1].card_type = "Quick"
    /\ ret.chain.cards[2].card_type = "Buster"
    /\ ret.score = SwappedScore

\* The score of the scored chain with class-advantage prioritization off
ScoreWithoutAdvantage ==
    score_chain(ret.chain, servants, current_wave, ret.np_decisions,
                [ settings EXCEPT !.prioritize_class_advantage = FALSE ])

\* The alive enemies against which the owner of some card of the chain has an
\* advantage above 1.0
AdvantagedEnemies ==
    { e \in 1..alive_count(current_wave) :
        \E c \in 1..3 :
            /\ ret.chain.cards[c].servant_idx < Len(servants)
            /\ damage_multiplier(servants[ret.chain.cards[c].servant_idx + 1],
                                 alive_enemies(current_wave)[e].class) > 2 }

\* The pairs of a card of the chain and an alive enemy against which the
\* card's owner has an advantage above 1.0
AdvantagedPairs ==
    { p \in (1..3) \X (1..alive_count(current_wave)) :
        /\ ret.chain.cards[p[1]].servant_idx < Len(servants)
        /\ damage_multiplier(servants[ret.chain.cards[p[1]].servant_idx + 1],
                             alive_enemies(current_wave)[p[2]].class) > 2 }

\* C23: with class-advantage prioritization on, the score of a chain is its
\* score with the toggle off times 1.2^n, n the number of alive enemies
\* against which an owner of the chain has the advantage
C23_FactorPerEnemy ==
    (ret.op = "score_chain" /\ settings.prioritize_class_advantage)
        => BigTimes(ret.score, 5, Cardinality(AdvantagedEnemies))
               = BigTimes(ScoreWithoutAdvantage, 6, Cardinality(AdvantagedEnemies))

\* C23 as the code has it: the factor 1.2 is applied once for every pair of a
\* card of the chain and an alive enemy its owner has the advantage against,
\* and the toggle off gives the score of the chain against no enemy
C23_FactorPerCardAndEnemy ==
    ret.op = "score_chain"
        => IF settings.prioritize_class_advantage
           THEN BigTimes(ret.score, 5, Cardinality(AdvantagedPairs))
                    = BigTimes(ScoreWithoutAdvantage, 6, Cardinality(AdvantagedPairs))
           ELSE ret.score =
                    BigTimes(score_chain(ret.chain, servants,
                                         [ current_wave EXCEPT !.enemies = << >> ],
                                         ret.np_decisions, settings),
                             5, 3 * alive_count(current_wave))

\* Three cards of one owner with the advantage against one alive enemy
C23_Witness ==
    /\ ret.op = "score_chain" /\ settings.prioritize_class_advantage
    /\ Cardinality(AdvantagedEnemies) = 1
    /\ Cardinality(AdvantagedPairs) = 3

-----------------------------------------------------------------------------
(* Retargeting: the caller records the target of a TargetEnemy action *)

\* The caller writes state.target_enemy = Some(enemy_idx) after decide_action
\* returned TargetEnemy { enemy_idx }; nothing else in the snapshot changes
RecordTarget ==
    /\ ret.op = "decide_action"
    /\ ret.action.tag = "TargetEnemy"
    /\ target_enemy' = Some(ret.action.enemy_idx)
    /\ ret' = [ op |-> "record_target", enemy_idx |-> ret.action.enemy_idx ]
    /\ UNCHANGED << phase, current_wave, total_waves, servants, available_cards,
                    selected_cards, np_available, master_skills, settings >>

InitRetarget ==
    /\ InitDecide
    /\ phase = "CardSelection"

NextRetarget == DecideAction \/ RecordTarget

SpecRetarget == InitRetarget /\ [][NextRetarget]_vars

\* C24: the decide_action call that follows a recorded retarget, on the
\* snapshot otherwise unchanged, returns SelectCards: a retarget is never
\* emitted on two consecutive calls
C24_CardsAfterRetarget ==
    [][ (ret.op = "record_target" /\ ret'.op = "decide_action")
            => ret'.action.tag = "SelectCards" ]_vars

\* A retarget to the weaker enemy 1 has been recorded over enemy 0, with a
\* full hand and an NP ready
C24_Witness ==
    /\ ret.op = "record_target" /\ ret.enemy_idx = 1
    /\ target_enemy = Some(1)
    /\ Len(available_cards) = HandSize
    /\ np_available[1] /\ Len(servants) >= 1 /\ can_np(servants[1])

-----------------------------------------------------------------------------
(* Cooldowns over the turns that follow the use of a skill *)

\* The most start_turn calls counted after the use of a skill
MaxTurns == 4

\* Front lines: a servant with skills of max_cooldown 1, 2 and 3, alone or
\* before a dead servant with one skill on cooldown
CooldownServants ==
    { << [ ServantNew("Saber") EXCEPT
             !.skills = [ i \in 1..3 |-> [ SkillDefault EXCEPT !.max_cooldown = i ] ] ] >>,
      << [ ServantNew("Saber") EXCEPT
             !.skills = [ i \in 1..3 |-> [ SkillDefault EXCEPT !.max_cooldown = i,
                                                              !.cooldown = i - 1 ] ] ],
         [ ServantNew("Archer") EXCEPT
             !.is_alive = FALSE,
             !.skills = << SkillDefault, [ SkillDefault EXCEPT !.cooldown = 2 ],
                           [ SkillDefault EXCEPT !.max_cooldown = 2 ] >> ] >> }

InitCooldown ==
    /\ phase = "CommandPhase"
    /\ current_wave = EnemyWaveNew(1, 3)
    /\ total_waves = 3
    /\ servants \in CooldownServants
    /\ available_cards = << >>
    /\ selected_cards = << CardNew("Buster", 0, 0) >>
    /\ np_available = << FALSE, FALSE, FALSE >>
    /\ target_enemy = None
    /\ master_skills \in { MasterSkillsDefault,
                           [ MasterSkillsDefault EXCEPT !.cooldowns = << 1, 0, 2 >> ] }
    /\ settings = SettingsDefault
    /\ ret = NoReturn

\* BattleState::use_servant_skill(servant_idx, skill_idx) on a skill of the
\* front line; the call is remembered with the turns started since
UseSkillCall ==
    \E servant_idx \in 0..(Len(servants) - 1), skill_idx \in 0..2 :
        /\ servants' = use_servant_skill(servants, servant_idx, skill_idx)
        /\ ret' = [ op |-> "use_skill", is_master_skill |-> FALSE,
                    servant_idx |-> servant_idx, skill_idx |-> skill_idx,
                    max_cooldown |-> servants[servant_idx + 1].skills[skill_idx + 1].max_cooldown,
                    turns |-> 0 ]
        /\ UNCHANGED << phase, current_wave, total_waves, available_cards, selected_cards,
                        np_available, target_enemy, master_skills, settings >>

\* MasterSkills::use_skill(skill_idx, cooldown) on state.master_skills
MasterUseSkillCall ==
    \E skill_idx \in { 0, 2 }, cooldown \in { 1, 3 } :
        /\ master_skills' = master_use_skill(master_skills, skill_idx, cooldown)
        /\ ret' = [ op |-> "use_skill", is_master_skill |-> TRUE,
                    servant_idx |-> 0, skill_idx |-> skill_idx,
                    max_cooldown |-> cooldown, turns |-> 0 ]
        /\ UNCHANGED << phase, current_wave, total_waves, servants, available_cards,
                        selected_cards, np_available, target_enemy, settings >>

\* BattleState::start_turn, counted after the use of a skill
StartTurnAfterUse ==
    /\ ret.op = "use_skill"
    /\ ret.turns < MaxTurns
    /\ phase' = "CommandPhase"
    /\ selected_cards' = << >>
    /\ servants' = [ i \in 1..Len(servants) |-> servant_tick_cooldowns(servants[i]) ]
    /\ master_skills' = master_tick_cooldowns(master_skills)
    /\ ret' = [ ret EXCEPT !.turns = @ + 1 ]
    /\ UNCHANGED << current_wave, total_waves, available_cards, np_available,
                    target_enemy, settings >>

NextCooldown == UseSkillCall \/ MasterUseSkillCall \/ StartTurnAfterUse

SpecCooldown == InitCooldown /\ [][NextCooldown]_vars

\* The cooldown of the skill whose use is remembered
UsedCooldown ==
    IF ret.is_master_skill THEN master_skills.cooldowns[ret.skill_idx + 1]
    ELSE servants[ret.servant_idx + 1].skills[ret.skill_idx + 1].cooldown

\* Every cooldown of the front line and of the master skills, in one sequence
AllCooldowns(svs, ms) ==
    [ n \in 1..(3 * Len(svs)) |-> svs[((n - 1) \div 3) + 1].skills[((n - 1) % 3) + 1].cooldown ]
    \o ms.cooldowns

\* C25: a skill is ready exactly when its cooldown is 0; the use of a skill
\* sets its cooldown to max_cooldown; a start_turn call lowers every nonzero
\* servant-skill and master-skill cooldown by exactly 1 and leaves a zero at
\* zero; so a used skill with max_cooldown m >= 1 has cooldown m - t and is
\* not ready after t < m start_turn calls, and is ready after m of them
C25_CooldownCountsTurns ==
    /\ [](\A i \in 1..Len(servants) : \A k \in 1..3 :
              skill_is_ready(servants[i].skills[k]) <=> servants[i].skills[k].cooldown = 0)
    /\ [](ret.op = "use_skill"
              => /\ ret.turns < ret.max_cooldown => UsedCooldown = ret.max_cooldown - ret.turns
                 /\ ret.turns >= ret.max_cooldown => UsedCooldown = 0
                 /\ ~ret.is_master_skill
                        => (skill_is_ready(servants[ret.servant_idx + 1].skills[ret.skill_idx + 1])
                                <=> ret.turns >= ret.max_cooldown))
    /\ [][ (ret.op = "use_skill" /\ ret'.op = "use_skill" /\ ret'.turns = ret.turns + 1)
               => \A n \in 1..Len(AllCooldowns(servants, master_skills)) :
                      AllCooldowns(servants', master_skills')[n] =
                          IF AllCooldowns(servants, master_skills)[n] > 0
                          THEN AllCooldowns(servants, master_skills)[n] - 1
                          ELSE 0 ]_vars

\* A skill with max_cooldown 3 is ready again at the third start_turn after
\* its use
C25_Witness ==
    /\ ret.op = "use_skill" /\ ~ret.is_master_skill
    /\ ret.max_cooldown = 3 /\ ret.turns = 3
    /\ UsedCooldown = 0

-----------------------------------------------------------------------------
(* Wave progression: BattleState::next_wave.  In this specification the u32  *)
(* wave numbers are carried as two 16-bit halves << high, low >>.            *)

\* The most next_wave calls counted in one battle
MaxCalls == 5

\* The largest small number of waves of a battle
MaxWaves == 4

\* a <= b in u32
u32_le(a, b) == a[1] < b[1] \/ (a[1] = b[1] /\ a[2] <= b[2])

\* BattleState::next_wave: the current wave after the call.  The addition
\* wave_number + 1 that overflows panics in a build with overflow checks
\* (None) and wraps around in a build without.
next_wave(wave, total, overflow_checks) ==
    LET next_wave_num == u32_add(wave.wave_number, 1)
    IN  IF next_wave_num.overflow /\ overflow_checks THEN None
        ELSE IF u32_le(next_wave_num.sum, total)
             THEN Some(EnemyWaveNew(next_wave_num.sum, total))
             ELSE Some(wave)

\* The numbers of waves drawn: 1 to MaxWaves, and u32::MAX
WaveTotals == { << 0, n >> : n \in 1..MaxWaves } \cup { << 65535, 65535 >> }

\* The waves a battle of total waves starts from: any wave up to the last of
\* a small battle, the last three of the largest
StartWaves(total) ==
    IF total[1] = 0 THEN { << 0, n >> : n \in 1..total[2] }
    ELSE { << 65535, 65533 >>, << 65535, 65534 >>, << 65535, 65535 >> }

InitWave ==
    /\ phase \in { "CommandPhase", "AttackPhase" }
    /\ total_waves \in WaveTotals
    /\ \E start \in StartWaves(total_waves),
          enemies \in { << >>, << EnemyOf("Lancer", 80, 0, TRUE) >>,
                        << EnemyOf("Lancer", 0, 0, FALSE), EnemyOf("Archer", 60, 1, TRUE) >> } :
           current_wave = [ EnemyWaveNew(start, total_waves) EXCEPT !.enemies = enemies ]
    /\ servants = << >>
    /\ available_cards = << >>
    /\ selected_cards = << >>
    /\ np_available = << FALSE, FALSE, FALSE >>
    /\ target_enemy = None
    /\ master_skills = MasterSkillsDefault
    /\ settings = SettingsDefault
    /\ ret = NoReturn

\* A call of BattleState::next_wave in a build with or without overflow
\* checks; the calls of the battle are counted from the wave it started at
NextWave ==
    \E overflow_checks \in BOOLEAN :
        LET after == next_wave(current_wave, total_waves, overflow_checks)
            calls == IF ret.op = "none" THEN 0 ELSE ret.calls
            start == IF ret.op = "none" THEN current_wave.wave_number ELSE ret.start
        IN  /\ calls < MaxCalls
            /\ current_wave' = IF IsSome(after) THEN Unwrap(after) ELSE current_wave
            /\ ret' = [ op |-> "next_wave", panic |-> after = None,
                        before |-> current_wave, start |-> start, calls |-> calls + 1 ]
            /\ UNCHANGED << phase, total_waves, servants, available_cards, selected_cards,
                            np_available, target_enemy, master_skills, settings >>

\* A query of BattleState::is_final_wave
IsFinalWave ==
    /\ ret.op # "is_final_wave"
    /\ ret' = [ op |-> "is_final_wave", result |-> is_final_wave(current_wave),
                calls |-> IF ret.op = "none" THEN 0 ELSE ret.calls,
                start |-> IF ret.op = "none" THEN current_wave.wave_number
                          ELSE ret.start ]
    /\ Unchanged_state

NextWaveStep == NextWave \/ IsFinalWave

SpecWave == InitWave /\ [][NextWaveStep]_vars

\* What the claim says of a next_wave call and of an is_final_wave query
WaveProgression ==
    /\ ret.op = "next_wave"
           => /\ ~ret.panic
              /\ u32_le(current_wave.wave_number, total_waves)
              /\ IF ret.before.wave_number = total_waves
                 THEN current_wave = ret.before
                 ELSE /\ current_wave.wave_number[1] = ret.before.wave_number[1]
                      /\ current_wave.wave_number[2] = ret.before.wave_number[2] + 1
    /\ (ret.op = "is_final_wave" /\ ret.start = << 0, 1 >>)
           => (ret.result <=> ret.calls >= total_waves[2] - 1)

\* C26: with both total-wave fields N, next_wave raises the wave number by
\* exactly 1 below N and changes nothing at wave N, the wave number never
\* exceeds N, and from wave 1 is_final_wave is false before N - 1 calls and
\* true from N - 1 calls on, for every N
C26_WaveProgression == WaveProgression

\* C26 for every N below u32::MAX
C26_WaveProgressionInRange ==
    total_waves # << 65535, 65535 >> => WaveProgression

\* The third call of a battle of 3 waves started at wave 1 changes nothing
C26_Witness ==
    /\ ret.op = "next_wave" /\ ret.calls = 3
    /\ ret.start = << 0, 1 >> /\ total_waves = << 0, 3 >>
    /\ current_wave = ret.before
    /\ is_final_wave(current_wave)

-----------------------------------------------------------------------------
(* Screen tracking: GameState and the life of its battle state *)

\* enum UIState
UIStates ==
    { "Unknown", "MainMenu", "QuestSelection", "PartySetup", "SupportSelection",
      "Loading", "BattleCommand", "BattleCards", "BattleAttack", "BattleEnemy",
      "BattleResult", "FPSummonResult", "BondResult", "QuestComplete", "ItemDrops",
      "Dialog", "ConnectionError", "APRecovery", "MysticCodeSelect" }

\* UIState::is_battle
is_battle(ui) == ui \in { "BattleCommand", "BattleCards", "BattleAttack", "BattleEnemy" }

\* UIState::is_result_screen
is_result_screen(ui) == ui \in { "BattleResult", "BondResult", "QuestComplete", "ItemDrops" }

\* BattleState::default() as a value
BattleStateDefault ==
    [ phase |-> "Unknown", turn |-> 1, current_wave |-> EnemyWaveNew(1, 3),
      servants |-> << >>, backline |-> << >>, available_cards |-> << >>,
      selected_cards |-> << >>, np_available |-> << FALSE, FALSE, FALSE >>,
      target_enemy |-> None, master_skills |-> MasterSkillsDefault,
      critical_stars |-> 0, total_waves |-> 3 ]

\* GameState::default(), the fields update_ui_state, update_battle_state and
\* reset_for_new_run touch
GameStateDefault ==
    [ ui_state |-> "Unknown", previous_ui_state |-> "Unknown", battle |-> None,
      frames_in_state |-> 0, loop_count |-> 0, runs_completed |-> 0 ]

\* on_state_transition creating a battle state on every entry into BattleCommand
on_state_transition_any_origin(game, from, to) ==
    CASE to = "BattleCommand" ->
             [ game EXCEPT !.battle = Some(BattleStateDefault) ]
      [] from = "BattleAttack" /\ to = "BattleResult" ->
             IF IsSome(game.battle)
             THEN [ game EXCEPT !.battle = Some([ Unwrap(game.battle) EXCEPT !.phase = "Victory" ]) ]
             ELSE game
      [] from \in { "BattleResult", "BondResult", "ItemDrops" } /\ to = "QuestComplete" ->
             [ game EXCEPT !.runs_completed = @ + 1, !.battle = None ]
      [] from = "QuestComplete" /\ to \in { "MainMenu", "QuestSelection" } ->
             [ game EXCEPT !.loop_count = @ + 1 ]
      [] OTHER -> game

\* GameState::on_state_transition: the first arm that matches
on_state_transition(game, from, to) ==
    CASE to = "BattleCommand" /\ ~is_battle(from) ->
             [ game EXCEPT !.battle = Some(BattleStateDefault) ]
      [] from = "BattleAttack" /\ to = "BattleResult" ->
             IF IsSome(game.battle)
             THEN [ game EXCEPT !.battle = Some([ Unwrap(game.battle) EXCEPT !.phase = "Victory" ]) ]
             ELSE game
      [] from \in { "BattleResult", "BondResult", "ItemDrops" } /\ to = "QuestComplete" ->
             [ game EXCEPT !.runs_completed = @ + 1, !.battle = None ]
      [] from = "QuestComplete" /\ to \in { "MainMenu", "QuestSelection" } ->
             [ game EXCEPT !.loop_count = @ + 1 ]
      [] OTHER -> game

\* GameState::update_ui_state
update_ui_state(game, new_state) ==
    IF new_state # game.ui_state
    THEN on_state_transition([ game EXCEPT !.previous_ui_state = game.ui_state,
                                           !.ui_state = new_state,
                                           !.frames_in_state = 0 ],
                             game.ui_state, new_state)
    ELSE [ game EXCEPT !.frames_in_state = @ + 1 ]

\* BattleState::enter_card_selection on a battle state value
enter_card_selection(battle, cards) ==
    [ battle EXCEPT !.phase = "CardSelection",
                    !.available_cards = cards,
                    !.selected_cards = << >>,
                    !.np_available = [ i \in 1..3 |-> IF i <= Len(battle.servants)
                                                      THEN can_np(battle.servants[i])
                                                      ELSE battle.np_available[i] ] ]

\* GameState::update_battle_state
update_battle_state(game, info) ==
    IF IsSome(game.battle)
    THEN LET seen == [ Unwrap(game.battle) EXCEPT
                           !.current_wave = [ enemies |-> info.enemies,
                                              wave_number |-> info.wave_number,
                                              total_waves |-> info.total_waves ],
                           !.total_waves = info.total_waves,
                           !.servants = info.servants ]
             dealt == IF info.available_cards # << >>
                      THEN enter_card_selection(seen, info.available_cards)
                      ELSE seen
             starred == [ dealt EXCEPT !.critical_stars = info.critical_stars ]
         IN  [ game EXCEPT !.battle = Some([ starred EXCEPT
                   !.np_available = [ i \in 1..3 |-> IF i <= Len(starred.servants)
                                                     THEN can_np(starred.servants[i])
                                                     ELSE starred.np_available[i] ] ]) ]
    ELSE game

\* GameState::reset_for_new_run
reset_for_new_run(game) == [ game EXCEPT !.battle = None, !.frames_in_state = 0 ]

\* The most consecutive frames recognised as the same screen
MaxFrames == 2

\* The most runs and farming loops counted
MaxRuns == 1

\* What the recognition reports of a battle screen: the command screen of wave
\* 2 with one charged servant, and a dealt hand
BattleInfos ==
    { [ wave_number |-> 2, total_waves |-> 3,
        servants |-> << [ ServantNew("Saber") EXCEPT !.np_gauge = 100 ] >>,
        enemies |-> << EnemyOf("Lancer", 80, 0, TRUE) >>,
        available_cards |-> cards, critical_stars |-> 10 ] :
      cards \in { << >>, << CardNew("Buster", 0, 0), CardNew("Arts", 0, 1) >> } }

\* GameState::new(); the battle variables are those of a default battle
InitUi ==
    /\ phase = "Unknown"
    /\ current_wave = EnemyWaveNew(1, 3)
    /\ total_waves = 3
    /\ servants = << >>
    /\ available_cards = << >>
    /\ selected_cards = << >>
    /\ np_available = << FALSE, FALSE, FALSE >>
    /\ target_enemy = None
    /\ master_skills = MasterSkillsDefault
    /\ settings = SettingsDefault
    /\ ret = [ op |-> "new", game |-> GameStateDefault ]

\* GameState::update_ui_state(new_state)
UpdateUiState ==
    \E new_state \in UIStates :
        \E after \in { update_ui_state(ret.game, new_state) } :
            /\ after.frames_in_state <= MaxFrames
            /\ after.runs_completed <= MaxRuns
            /\ after.loop_count <= MaxRuns
            /\ ret' = [ op |-> "update_ui_state", game |-> after ]
            /\ Unchanged_state

\* GameState::update_battle_state(info)
UpdateBattleState ==
    \E info \in BattleInfos :
        /\ ret' = [ op |-> "update_battle_state", game |-> update_battle_state(ret.game, info) ]
        /\ Unchanged_state

\* GameState::reset_for_new_run()
ResetForNewRun ==
    /\ ret' = [ op |-> "reset_for_new_run", game |-> reset_for_new_run(ret.game) ]
    /\ Unchanged_state

NextUi == UpdateUiState \/ UpdateBattleState \/ ResetForNewRun

SpecUi == InitUi /\ [][NextUi]_vars

\* C27: update_ui_state puts a fresh BattleState in place on every change into
\* BattleCommand from a non-battle screen; a change from a battle screen to a
\* battle screen leaves the battle state as it is; update_ui_state removes a
\* battle state exactly on a change into QuestComplete from BattleResult,
\* BondResult or ItemDrops, and reset_for_new_run removes it; a call with the
\* screen unchanged adds 1 to frames_in_state and changes nothing else
C27_BattleStateLifecycle ==
    /\ [][(ret'.op = "update_ui_state" /\ ret'.game.ui_state = "BattleCommand"
             /\ ~is_battle(ret.game.ui_state))
              => ret'.game.battle = Some(BattleStateDefault)]_vars
    /\ [][(ret'.op = "update_ui_state" /\ is_battle(ret.game.ui_state)
             /\ is_battle(ret'.game.ui_state))
              => ret'.game.battle = ret.game.battle]_vars
    /\ [][(ret'.op = "update_ui_state" /\ IsSome(ret.game.battle))
              => (ret'.game.battle = None
                    <=> /\ ret'.game.ui_state = "QuestComplete"
                        /\ ret.game.ui_state # "QuestComplete"
                        /\ is_result_screen(ret.game.ui_state))]_vars
    /\ [][ret'.op = "reset_for_new_run" => ret'.game.battle = None]_vars
    /\ [][(ret'.op = "update_ui_state" /\ ret'.game.ui_state = ret.game.ui_state)
              => ret'.game = [ ret.game EXCEPT !.frames_in_state = @ + 1 ]]_vars

\* A battle state that the recognition has filled in is still there after the
\* screens BattleCommand, BattleCards, BattleAttack and a repeated frame
C27_Witness ==
    /\ ret.op = "update_ui_state"
    /\ ret.game.ui_state = "BattleAttack" /\ ret.game.previous_ui_state = "BattleCards"
    /\ ret.game.frames_in_state = 1
    /\ IsSome(ret.game.battle)
    /\ Unwrap(ret.game.battle).phase = "CardSelection"
    /\ ret.game.runs_completed = 1

-----------------------------------------------------------------------------
(* NP selection: how often a servant's NP is selected for one hand *)

\* No NP selected yet for the hand: successful select_np calls per servant
\* since the last enter_card_selection
NonePicked == << 0, 0, 0 >>

InitPick ==
    /\ phase = "Unknown"
    /\ current_wave = EnemyWaveNew(1, 3)
    /\ total_waves = 3
    /\ servants \in TurnServants
    /\ available_cards = << >>
    /\ selected_cards = << >>
    /\ np_available = << FALSE, FALSE, FALSE >>
    /\ target_enemy = None
    /\ master_skills = MasterSkillsDefault
    /\ settings = SettingsDefault
    /\ ret = [ op |-> "none", picked |-> NonePicked ]

\* BattleState::start_turn
StartTurnCall ==
    /\ phase' = "CommandPhase"
    /\ selected_cards' = << >>
    /\ servants' = [ i \in 1..Len(servants) |-> servant_tick_cooldowns(servants[i]) ]
    /\ master_skills' = master_tick_cooldowns(master_skills)
    /\ ret' = [ op |-> "start_turn", picked |-> ret.picked ]
    /\ UNCHANGED << current_wave, total_waves, available_cards, np_available,
                    target_enemy, settings >>

\* BattleState::enter_card_selection(cards)
EnterCardSelectionCall ==
    \E cards \in TurnHands :
        /\ phase' = "CardSelection"
        /\ available_cards' = cards
        /\ selected_cards' = << >>
        /\ np_available' = [ i \in 1..3 |-> IF i <= Len(servants) THEN can_np(servants[i])
                                            ELSE np_available[i] ]
        /\ ret' = [ op |-> "enter_card_selection", picked |-> NonePicked ]
        /\ UNCHANGED << current_wave, total_waves, servants, target_enemy,
                        master_skills, settings >>

\* BattleState::select_card(card), for a card of the hand
SelectCardCall ==
    \E i \in 1..Len(available_cards) :
        LET after == select_card_state(selected_cards, available_cards[i]) IN
        /\ selected_cards' = after.selected
        /\ ret' = [ op |-> "select_card", result |-> after.result, picked |-> ret.picked ]
        /\ UNCHANGED << phase, current_wave, total_waves, servants, available_cards,
                        np_available, target_enemy, master_skills, settings >>

\* BattleState::select_np(servant_idx)
SelectNpCall ==
    \E servant_idx \in 0..MaxNpIndex :
        LET after == select_np_state(selected_cards, np_available, servant_idx) IN
        /\ selected_cards' = after.selected
        /\ np_available' = after.np_avail
        /\ ret' = [ op |-> "select_np", servant_idx |-> servant_idx,
                    result |-> after.result,
                    picked |-> IF after.result
                               THEN [ ret.picked EXCEPT ![servant_idx + 1] = @ + 1 ]
                               ELSE ret.picked ]
        /\ UNCHANGED << phase, current_wave, total_waves, servants, available_cards,
                        target_enemy, master_skills, settings >>

NextPick == StartTurnCall \/ EnterCardSelectionCall \/ SelectCardCall \/ SelectNpCall

SpecPick == InitPick /\ [][NextPick]_vars

-----------------------------------------------------------------------------
(* The skill step: decide_action repeated, each UseSkill applied by the caller *)

\* Front lines of the skill step: none, every single servant of the skill
\* specification, and pairs of a charged servant with a second servant
LoopFrontLines ==
    FrontLines(1, SkillServants)
    \cup { << a, b >> : a \in { sv \in SkillServants : can_np(sv) },
                        b \in { sv \in SkillServants :
                                   sv.skills = WithCooldowns(sv.skills, << 0, 0, 0 >>) } }

\* Command-phase snapshots with skill automation on; every skill has
\* max_cooldown 6
InitLoop ==
    /\ phase = "CommandPhase"
    /\ total_waves = 3
    /\ \E wave_number \in { 1, 3 } : current_wave = EnemyWaveNew(wave_number, 3)
    /\ servants \in LoopFrontLines
    /\ available_cards = << >>
    /\ selected_cards = << >>
    /\ np_available = << FALSE, FALSE, FALSE >>
    /\ target_enemy = None
    /\ master_skills \in
           { MasterSkillsDefault,
             [ MasterSkillsDefault EXCEPT !.available = FALSE ],
             [ MasterSkillsDefault EXCEPT !.cooldowns = << 2, 0, 0 >> ],
             [ MasterSkillsDefault EXCEPT !.cooldowns = << 0, 2, 0 >> ] }
    /\ \E charge \in BOOLEAN, master \in BOOLEAN :
           settings = [ SettingsDefault EXCEPT
                            !.skill_settings.auto_use_skills = TRUE,
                            !.skill_settings.np_charge_priority = charge,
                            !.skill_settings.use_master_skills = master ]
    /\ ret = NoReturn

\* The caller asks for the next action once the last UseSkill is applied
DecideNext ==
    /\ ret.op = "decide_action" => ret.action.tag # "UseSkill"
    /\ DecideAction

\* The caller applies the returned UseSkill { servant_idx, skill_idx, .. } with
\* BattleState::use_servant_skill(servant_idx, skill_idx)
ApplyUseSkill ==
    /\ ret.op = "decide_action" /\ ret.action.tag = "UseSkill"
    /\ servants' = use_servant_skill(servants, ret.action.servant_idx, ret.action.skill_idx)
    /\ ret' = [ op |-> "use_servant_skill", servant_idx |-> ret.action.servant_idx,
                skill_idx |-> ret.action.skill_idx ]
    /\ UNCHANGED << phase, current_wave, total_waves, available_cards, selected_cards,
                    np_available, target_enemy, master_skills, settings >>

NextLoop == DecideNext \/ ApplyUseSkill

\* The caller has a decision to ask for: the last step was not a decide_action
\* call.  A decide_action call changes ret exactly in these states, so this is
\* ENABLED <<DecideNext>>_vars
DecidePending == ret.op # "decide_action"

\* The caller keeps calling: a returned UseSkill is applied, and the next
\* decision is asked for, which is WF_vars(DecideNext) with its ENABLED
\* written as DecidePending
SpecLoop ==
    /\ InitLoop /\ [][NextLoop]_vars
    /\ WF_vars(ApplyUseSkill)
    /\ (<>[]DecidePending => []<><<DecideNext>>_vars)

\* recommend_skills holds a master skill recommendation in the current state
MasterRecommended ==
    \E i \in 1..Len(CurrentRecommendations) : CurrentRecommendations[i].is_master_skill

\* C29: in CommandPhase with skill automation on and every max_cooldown at
\* least 1, when each returned UseSkill is applied with use_servant_skill and
\* nothing else changes, decide_action eventually returns TapAttack
C29_SkillStepEnds ==
    <>(ret.op = "decide_action" /\ ret.action.tag = "TapAttack")

\* C29 for snapshots without a master skill recommendation: TapAttack is
\* eventually returned; with a master skill recommendation it never is
C29_SkillStepEndsWithoutMaster ==
    /\ ~MasterRecommended => <>(ret.op = "decide_action" /\ ret.action.tag = "TapAttack")
    /\ [](MasterRecommended => ~(ret.op = "decide_action" /\ ret.action.tag = "TapAttack"))

\* UseSkill names skill 1 of servant 0 again although use_servant_skill has
\* put that skill on cooldown: the recommendation is the one for master skill 1
C29_Witness ==
    /\ ret.op = "decide_action" /\ ret.action.tag = "UseSkill"
    /\ ret.action.servant_idx = 0 /\ ret.action.skill_idx = 1
    /\ servants[1].skills[2].cooldown = servants[1].skills[2].max_cooldown
    /\ CurrentRecommendations[1].is_master_skill
    /\ master_is_ready(master_skills, 1)

-----------------------------------------------------------------------------
(* The index list of SelectCards: NPs, selected cards and the padding loop *)

\* Front lines of up to three servants, charged or not
PadFrontLines ==
    FrontLines(3, { [ ServantNew("Saber") EXCEPT !.np_gauge = 100 ], ServantNew("Saber") })

\* Card selection snapshots: every hand size, up to three NPs, on the first
\* and on the final wave
InitPad ==
    /\ phase = "CardSelection"
    /\ total_waves = 3
    /\ \E wave_number \in { 1, 3 } :
           current_wave = [ EnemyWaveNew(wave_number, 3) EXCEPT
                                !.enemies = << EnemyOf("Lancer", 80, 0, TRUE),
                                               EnemyOf("Archer", 20, 1, TRUE) >> ]
    /\ servants \in PadFrontLines
    /\ available_cards \in DecideHands
    /\ selected_cards = << >>
    /\ np_available \in { << FALSE, FALSE, FALSE >>, << TRUE, TRUE, TRUE >>,
                          << FALSE, TRUE, FALSE >>, << TRUE, FALSE, TRUE >> }
    /\ target_enemy \in { None, Some(0), Some(1) }
    /\ master_skills = MasterSkillsDefault
    /\ settings = SettingsDefault
    /\ ret = NoReturn

NextPad == DecideAction

SpecPad == InitPad /\ [][NextPad]_vars

\* What select_cards returns in the current state
CurrentCardSelection ==
    select_cards(available_cards, servants, current_wave, CurrentNpDecisions, settings)

\* The index list before the padding loop: 5 + servant_idx for the decided
\* NPs that are available, then card positions while fewer than 3 entries
UnpaddedIndices ==
    LET nps == SelectSeq(CurrentNpDecisions, LAMBDA servant_idx : np_available[servant_idx + 1])
        selection == CurrentCardSelection
    IN  [ i \in 1..Len(nps) |-> 5 + nps[i] ]
        \o [ i \in 1..(IF 3 - Len(nps) < Len(selection) THEN 3 - Len(nps) ELSE Len(selection))
               |-> selection[i].position ]

=============================================================================
